---------------------------- MODULE Spec2Model ----------------------------
(***************************************************************************)
(* A model of rfs (chiro2001/rfs): an ext2 filesystem engine over a block  *)
(* device, with a write-back LRU cache stacked on a file-backed device.    *)
(*                                                                         *)
(* The specifications of this module share its variables.                 *)
(*   SpecCache  the CacheDiskDriver stacked on a FileDiskDriver, run side  *)
(*              by side with a second FileDiskDriver that receives the     *)
(*              same requests directly.                                    *)
(*   SpecOpen   SpecCache with ddriver_open issued at any time and a       *)
(*              backing file that may start to fail.                       *)
(*   Spec       the filesystem RFS<FileDiskDriver>: mount/format, make_node,*)
(*              rfs_write, rfs_read, rfs_destroy.                          *)
(*   SpecDir, SpecFull, SpecRename   Spec with long names, with an image   *)
(*              whose bitmaps are nearly full, and with rename.            *)
(* Bytes are modelled as cells; an IO unit is 2^block_log cells.           *)
(***************************************************************************)
EXTENDS Integers, Sequences, FiniteSets, TLC

VARIABLES
    \* ---- cached device (SpecCache) ----
    cdrv,       \* CacheDiskDriver: [inner, cache, offset]
    rdev,       \* a FileDiskDriver receiving the same requests directly
    written,    \* history: tag -> unit bytes last written through the cache
    aligned,    \* history: every seek so far used a unit-aligned offset
    lastuse,    \* history: tag -> time of its last read or write through the
                \* cache since the slots were last cleared
    clast,      \* history: the last request and both results
    cops,       \* number of requests issued
    halted,     \* a panic (assert!/panic!) aborted the process
    \* ---- filesystem (Spec) ----
    disk,       \* FileDiskDriver backing store: block number -> block content
    mounted,    \* rfs_init has completed and rfs_destroy has not
    super_block,        \* Ext2SuperBlockMem
    group_desc_table,   \* Vec<Ext2GroupDesc>
    filesystem_first_block,
    bitmap_inode,       \* Vec<u8>: [len, bits] (length in bytes, set bit positions)
    bitmap_data,        \* Vec<u8>: [len, bits]
    image,      \* history: file ino -> (logical index -> pattern last written)
    dirs,       \* history: inode numbers of directories the kernel knows
    returned,   \* history: indices handed out by the allocators since format
    snap,       \* history: what rfs_destroy left behind
    flast,      \* history: the last filesystem operation and its result
    fops        \* number of requests issued

cvars == <<cdrv, rdev, written, aligned, lastuse, clast, cops, halted>>
fvars == <<disk, mounted, super_block, group_desc_table, filesystem_first_block,
           bitmap_inode, bitmap_data, image, dirs, returned, snap, flast, fops>>
vars == <<cdrv, rdev, written, aligned, lastuse, clast, cops, halted,
          disk, mounted, super_block, group_desc_table, filesystem_first_block,
          bitmap_inode, bitmap_data, image, dirs, returned, snap, flast, fops>>

(***************************************************************************)
(* Bounds                                                                  *)
(***************************************************************************)
block_log == 1          \* log2 of the IO unit, in cells
DevUnits == 3           \* layout size of the modelled device, in IO units
CacheSize == 2          \* N_c, number of cache slots
MaxCacheOps == 4        \* requests issued to the cached device
MaxFsOps == 5           \* requests sent to the filesystem

Min(a, b) == IF a < b THEN a ELSE b
Max(a, b) == IF a > b THEN a ELSE b

RECURSIVE Pow2(_)
Pow2(n) == IF n = 0 THEN 1 ELSE 2 * Pow2(n - 1)

Zeros(n) == [i \in 1..n |-> 0]

(***************************************************************************)
(* disk_driver: geometry                                                   *)
(***************************************************************************)
iounit_size == Pow2(block_log)
layout_size == DevUnits * iounit_size

Ok(n, buf) == [k |-> "ok", n |-> n, buf |-> buf]
Err == [k |-> "err", n |-> 0, buf |-> <<>>]
Panic == [k |-> "panic", n |-> 0, buf |-> <<>>]

(***************************************************************************)
(* FileDiskDriver (disk_driver/src/file.rs).  A device is                  *)
(* [data |-> sequence of cells, pos |-> stream position, fault |-> the     *)
(* backing file answers seek, read and write with an io::Error].           *)
(***************************************************************************)
FileDiskDriver_new == [data |-> Zeros(layout_size), pos |-> 0, fault |-> FALSE]

\* ddriver_open of a device whose file exists with the layout size: the file
\* is opened again, its stream position is 0.
file_ddriver_open(d) == [d |-> [d EXCEPT !.pos = 0], res |-> Ok(0, <<>>)]

\* std::fs::File::seek, with the panic of ddriver_seek on SET past the layout.
file_ddriver_seek(d, offset, whence) ==
    IF whence = "Set" /\ offset > layout_size
    THEN [d |-> d, res |-> Panic]
    ELSE IF d.fault THEN [d |-> d, res |-> Err]
    ELSE LET np == CASE whence = "Set" -> offset
                     [] whence = "Cur" -> d.pos + offset
                     [] whence = "End" -> Len(d.data) + offset
         IN IF np < 0 THEN [d |-> d, res |-> Err]
            ELSE [d |-> [d EXCEPT !.pos = np], res |-> Ok(np, <<>>)]

\* write_all at the stream position; a write past the end grows the file.
file_ddriver_write(d, buf, size) ==
    IF Len(buf) < size \/ size % iounit_size # 0
    THEN [d |-> d, res |-> Panic]
    ELSE IF d.fault THEN [d |-> d, res |-> Err]
    ELSE LET newlen == Max(Len(d.data), d.pos + size)
             nd == [i \in 1..newlen |->
                      IF i > d.pos /\ i <= d.pos + size THEN buf[i - d.pos]
                      ELSE IF i <= Len(d.data) THEN d.data[i] ELSE 0]
         IN [d |-> [d EXCEPT !.data = nd, !.pos = d.pos + size],
             res |-> Ok(size, <<>>)]

\* read up to size bytes into a zeroed buffer; a short read at end of file.
file_ddriver_read(d, size) ==
    IF d.fault THEN [d |-> d, res |-> Err] ELSE
    LET r == Min(size, Max(0, Len(d.data) - d.pos))
        b == [i \in 1..size |-> IF i <= r THEN d.data[d.pos + i] ELSE 0]
    IN [d |-> [d EXCEPT !.pos = d.pos + r], res |-> Ok(r, b)]

file_ddriver_flush(d) == [d |-> d, res |-> Ok(0, <<>>)]

file_ddriver_close(d) == [d |-> d, res |-> Ok(0, <<>>)]

\* ddriver_open on a path: file is <<>> when nothing exists at the path and
\* <<bytes>> for an existing file.  A missing file is created from
\* blank_data; the file is opened (stream position 0); a file shorter than
\* the layout gets `padding` zero bytes from ddriver_write.
file_ddriver_open_path(d, file) ==
    LET o == [d EXCEPT !.data = IF file = <<>> THEN Zeros(layout_size) ELSE file[1], !.pos = 0]
        padding == layout_size - Len(o.data)
        w == file_ddriver_write(o, Zeros(padding), padding)
    IN IF Len(o.data) >= layout_size THEN [d |-> o, res |-> Ok(0, <<>>)]
       ELSE IF w.res.k = "ok" THEN [d |-> w.d, res |-> Ok(0, <<>>)]
       ELSE [d |-> IF w.res.k = "panic" THEN d ELSE o, res |-> w.res]

file_ddriver_reset(d) ==
    LET s == file_ddriver_seek(d, 0, "Set")
    IN IF s.res.k # "ok" THEN s
       ELSE file_ddriver_write(s.d, Zeros(layout_size), layout_size)


(***************************************************************************)
(* CacheDiskDriver (disk_driver/src/cache.rs).  The LruCache is a sequence *)
(* of slots [tag, data, dirty], most recently used first.                  *)
(***************************************************************************)
CacheDiskDriver_new(inner) == [inner |-> inner, cache |-> <<>>, offset |-> 0]

get_tag(address) == address \div Pow2(block_log)

LruIndex(q, tag) ==
    IF \E i \in 1..Len(q) : q[i].tag = tag
    THEN CHOOSE i \in 1..Len(q) : q[i].tag = tag
    ELSE 0

LruRemove(q, i) == [j \in 1..(Len(q) - 1) |-> IF j < i THEN q[j] ELSE q[j + 1]]

\* LruCache::get / get_mut: the slot becomes the most recently used.
LruPromote(q, i, item) == <<item>> \o LruRemove(q, i)

\* a push that, at capacity, removes the most recently used slot
LruPush_mru(q, item) ==
    IF Len(q) >= CacheSize
    THEN [q |-> <<item>> \o LruRemove(q, 1), replaced |-> <<q[1]>>]
    ELSE [q |-> <<item>> \o q, replaced |-> <<>>]

\* LruCache::push of an absent key: at capacity, the least recently used slot
\* is removed and returned.
LruPush(q, item) ==
    IF Len(q) >= CacheSize
    THEN [q |-> <<item>> \o LruRemove(q, Len(q)), replaced |-> <<q[Len(q)]>>]
    ELSE [q |-> <<item>> \o q, replaced |-> <<>>]

write_back_item(inner, replaced) ==
    IF replaced = <<>> \/ ~replaced[1].dirty
    THEN [d |-> inner, res |-> Ok(0, <<>>)]
    ELSE LET address == replaced[1].tag * Pow2(block_log)
             s == file_ddriver_seek(inner, address, "Set")
         IN IF s.res.k # "ok" THEN s
            ELSE file_ddriver_write(s.d, replaced[1].data, iounit_size)

\* ddriver_open: the slots are cleared, then the inner device is opened
cache_ddriver_open(c) ==
    LET g == file_ddriver_open(c.inner)
    IN [c |-> [c EXCEPT !.cache = <<>>, !.inner = g.d], res |-> g.res]

\* a seek that takes the offset of SeekType::Set relative to the cursor
cache_ddriver_seek_relative(c, offset, whence) ==
    LET no == CASE whence = "Set" -> c.offset + offset
                [] whence = "Cur" -> c.offset + offset
                [] whence = "End" -> layout_size - offset
    IN [c |-> [c EXCEPT !.offset = no], res |-> Ok(no, <<>>)]

cache_ddriver_seek(c, offset, whence) ==
    LET no == CASE whence = "Set" -> offset
                [] whence = "Cur" -> c.offset + offset
                [] whence = "End" -> layout_size - offset
    IN [c |-> [c EXCEPT !.offset = no], res |-> Ok(no, <<>>)]

\* ddriver_write with size = unit
cache_write_unit(c, buf) ==
    LET tag == get_tag(c.offset)
        i == LruIndex(c.cache, tag)
    IN IF i # 0
       THEN [c |-> [c EXCEPT !.cache = LruPromote(c.cache, i,
                                  [tag |-> tag, data |-> buf, dirty |-> TRUE]),
                             !.offset = c.offset + iounit_size],
             res |-> Ok(iounit_size, <<>>)]
       ELSE LET p == LruPush(c.cache, [tag |-> tag, data |-> buf, dirty |-> TRUE])
                wb == write_back_item(c.inner, p.replaced)
            IN IF wb.res.k # "ok"
               THEN [c |-> [c EXCEPT !.cache = p.q, !.inner = wb.d], res |-> wb.res]
               ELSE [c |-> [inner |-> wb.d, cache |-> p.q,
                            offset |-> c.offset + iounit_size],
                     res |-> Ok(iounit_size, <<>>)]

RECURSIVE cache_write_units(_, _, _, _, _)
cache_write_units(c, buf, i, n, sz) ==
    IF i >= n THEN [c |-> c, res |-> Ok(sz, <<>>)]
    ELSE LET w == cache_write_unit(c, SubSeq(buf, i * iounit_size + 1,
                                             (i + 1) * iounit_size))
         IN IF w.res.k # "ok" THEN w
            ELSE cache_write_units(w.c, buf, i + 1, n, sz + w.res.n)

cache_ddriver_write(c, buf, size) ==
    IF size % iounit_size # 0 THEN [c |-> c, res |-> Panic]
    ELSE IF size # iounit_size
         THEN cache_write_units(c, buf, 0, size \div Pow2(block_log), 0)
         ELSE cache_write_unit(c, buf)

\* ddriver_read with size = unit
cache_read_unit(c) ==
    LET tag == get_tag(c.offset)
        i == LruIndex(c.cache, tag)
    IN IF i # 0
       THEN [c |-> [c EXCEPT !.cache = LruPromote(c.cache, i, c.cache[i]),
                             !.offset = c.offset + iounit_size],
             res |-> Ok(iounit_size, c.cache[i].data)]
       ELSE LET s == file_ddriver_seek(c.inner, c.offset, "Set")
            IN IF s.res.k # "ok" THEN [c |-> [c EXCEPT !.inner = s.d], res |-> s.res]
               ELSE LET r == file_ddriver_read(s.d, iounit_size)
                        p == LruPush(c.cache, [tag |-> tag, data |-> r.res.buf,
                                               dirty |-> FALSE])
                        wb == write_back_item(r.d, p.replaced)
                    IN IF wb.res.k # "ok"
                       THEN [c |-> [c EXCEPT !.cache = p.q, !.inner = wb.d],
                             res |-> wb.res]
                       ELSE [c |-> [inner |-> wb.d, cache |-> p.q,
                                    offset |-> c.offset + r.res.n],
                             res |-> Ok(r.res.n, r.res.buf)]

RECURSIVE cache_read_units(_, _, _, _, _)
cache_read_units(c, i, n, sz, acc) ==
    IF i >= n THEN [c |-> c, res |-> Ok(sz, acc)]
    ELSE LET r == cache_read_unit(c)
         IN IF r.res.k # "ok" THEN r
            ELSE cache_read_units(r.c, i + 1, n, sz + r.res.n, acc \o r.res.buf)

cache_ddriver_read(c, size) ==
    IF size % iounit_size # 0 THEN [c |-> c, res |-> Panic]
    ELSE IF size # iounit_size
         THEN cache_read_units(c, 0, size \div Pow2(block_log), 0, <<>>)
         ELSE cache_read_unit(c)

\* the loop of ddriver_flush over the slots, most recently used first
RECURSIVE flush_items(_, _, _)
flush_items(inner, q, i) ==
    IF i > Len(q) THEN [d |-> inner, res |-> Ok(0, <<>>)]
    ELSE IF ~q[i].dirty THEN flush_items(inner, q, i + 1)
    ELSE LET s == file_ddriver_seek(inner, q[i].tag * Pow2(block_log), "Set")
         IN IF s.res.k # "ok" THEN s
            ELSE LET w == file_ddriver_write(s.d, q[i].data, Len(q[i].data))
                 IN IF w.res.k # "ok" THEN w
                    ELSE flush_items(w.d, q, i + 1)

\* a flush that clears the slots without writing the dirty ones back
cache_ddriver_flush_drop(c) ==
    LET g == file_ddriver_flush(c.inner)
    IN [c |-> [c EXCEPT !.inner = g.d, !.cache = <<>>], res |-> g.res]

cache_ddriver_flush(c) ==
    LET f == flush_items(c.inner, c.cache, 1)
    IN IF f.res.k # "ok" THEN [c |-> [c EXCEPT !.inner = f.d], res |-> f.res]
       ELSE LET g == file_ddriver_flush(f.d)
            IN [c |-> [c EXCEPT !.inner = g.d, !.cache = <<>>], res |-> g.res]

DirtyTags(q) == {q[i].tag : i \in {j \in 1..Len(q) : q[j].dirty}}

\* a close that propagates to the inner device without flushing first
cache_ddriver_close_noflush(c) ==
    LET g == file_ddriver_close(c.inner)
    IN [c |-> [c EXCEPT !.inner = g.d], res |-> g.res,
        inner_called |-> TRUE, pending |-> DirtyTags(c.cache)]

\* pending: the dirty tags held by the cache when the inner close is invoked
cache_ddriver_close(c) ==
    LET f == cache_ddriver_flush(c)
    IN IF f.res.k # "ok" THEN [c |-> f.c, res |-> f.res, inner_called |-> FALSE,
                               pending |-> {}]
       ELSE LET g == file_ddriver_close(f.c.inner)
            IN [c |-> [f.c EXCEPT !.inner = g.d], res |-> g.res,
                inner_called |-> TRUE, pending |-> DirtyTags(f.c.cache)]

\* pending: the dirty tags held by the cache when the inner reset is invoked
cache_ddriver_reset(c) ==
    LET f == cache_ddriver_flush(c)
    IN IF f.res.k # "ok" THEN [c |-> f.c, res |-> f.res, inner_called |-> FALSE,
                               pending |-> {}]
       ELSE LET g == file_ddriver_reset(f.c.inner)
            IN [c |-> [f.c EXCEPT !.inner = g.d], res |-> g.res,
                inner_called |-> TRUE, pending |-> DirtyTags(f.c.cache)]

(***************************************************************************)
(* SpecCache: requests issued to the cached device and, identically, to a  *)
(* FileDiskDriver used directly.                                           *)
(***************************************************************************)
Vals == {1, 2}
SeekOffsets == {0, 1, iounit_size}
Whences == {"Set", "Cur", "End"}
Sizes == {iounit_size, 2 * iounit_size}
MaxPos == layout_size + iounit_size

\* a buffer of n cells: every unit is <<v, v + 2, v + 2, ...>>
WBuf(v, n) == [i \in 1..n |-> IF i % iounit_size = 1 THEN v ELSE v + 2]

NoRes == [k |-> "none", n |-> 0, buf |-> <<>>]

\* The progress of one device through the sequence of driver_tester: a write
\* of one unit (stage 1, with the cursor it was issued at and its bytes), a
\* seek to that cursor with SeekType::Set (stage 2), a read of one unit
\* (stage 3).
EchoIdle == [stage |-> 0, pos |-> 0, buf |-> <<>>]

EchoWrite(pos, buf, res) ==
    IF Len(buf) = iounit_size /\ res.k = "ok"
    THEN [stage |-> 1, pos |-> pos, buf |-> buf]
    ELSE EchoIdle

EchoSeek(e, offset, whence, res) ==
    IF e.stage = 1 /\ whence = "Set" /\ offset = e.pos /\ res.k = "ok"
    THEN [e EXCEPT !.stage = 2]
    ELSE EchoIdle

EchoRead(e, size) ==
    IF e.stage = 2 /\ size = iounit_size THEN [e EXCEPT !.stage = 3] ELSE EchoIdle

Last(op, cres, rres, pending, inner_called, wrote) ==
    [op |-> op, cres |-> cres, rres |-> rres, pending |-> pending,
     inner_called |-> inner_called, wrote |-> wrote,
     cecho |-> EchoIdle, recho |-> EchoIdle, file |-> <<>>]

\* unit t of the inner device, zero-extended
InnerUnit(d, t) ==
    [i \in 1..iounit_size |->
        IF t * iounit_size + i <= Len(d.data) THEN d.data[t * iounit_size + i] ELSE 0]

\* the units a successful write of buf at offset off stores, by tag
WrittenBy(old, off, buf) ==
    LET n == Len(buf) \div iounit_size
        tags == {get_tag(off + i * iounit_size) : i \in 0..(n - 1)}
        lastOf(t) == CHOOSE i \in 0..(n - 1) :
                        /\ get_tag(off + i * iounit_size) = t
                        /\ \A j \in 0..(n - 1) :
                              get_tag(off + j * iounit_size) = t => j <= i
    IN [t \in DOMAIN old \cup tags |->
          IF t \in tags
          THEN SubSeq(buf, lastOf(t) * iounit_size + 1, (lastOf(t) + 1) * iounit_size)
          ELSE old[t]]

\* the tags the units of a request of n units touch, in order: a write moves
\* the cursor by one unit per unit, a read by what the unit read returned
TouchedByWrite(c, n) == [i \in 1..n |-> get_tag(c.offset + (i - 1) * iounit_size)]

RECURSIVE TouchedByRead(_, _)
TouchedByRead(c, n) ==
    IF n = 0 THEN <<>>
    ELSE <<get_tag(c.offset)>> \o TouchedByRead(cache_read_unit(c).c, n - 1)

\* the times of last use after the units of request number op touched tags
RECURSIVE Touch(_, _, _, _)
Touch(u, tags, op, i) ==
    IF i > Len(tags) THEN u
    ELSE Touch([t \in DOMAIN u \cup {tags[i]} |->
                   IF t = tags[i] THEN 2 * op + i ELSE u[t]], tags, op, i + 1)

CacheIdle ==
    /\ cdrv = CacheDiskDriver_new(FileDiskDriver_new)
    /\ rdev = FileDiskDriver_new
    /\ written = <<>>
    /\ aligned = TRUE
    /\ lastuse = <<>>
    /\ clast = Last("none", NoRes, NoRes, {}, FALSE, 0)
    /\ cops = 0
    /\ halted = FALSE

CSeek ==
    \E o \in SeekOffsets, wh \in Whences :
        LET c == cache_ddriver_seek(cdrv, o, wh)
            r == file_ddriver_seek(rdev, o, wh)
        IN /\ cops < MaxCacheOps /\ ~halted
           /\ c.c.offset >= 0 /\ c.c.offset <= MaxPos /\ r.d.pos <= MaxPos
           /\ cdrv' = c.c
           /\ rdev' = r.d
           /\ aligned' = (aligned /\ o % iounit_size = 0)
           /\ clast' = [Last("seek", c.res, r.res, {}, FALSE, 0) EXCEPT
                           !.cecho = EchoSeek(clast.cecho, o, wh, c.res),
                           !.recho = EchoSeek(clast.recho, o, wh, r.res)]
           /\ halted' = (c.res.k = "panic" \/ r.res.k = "panic")
           /\ cops' = cops + 1
           /\ UNCHANGED <<written, lastuse>>

CWrite ==
    \E v \in Vals, n \in Sizes :
        LET buf == WBuf(v, n)
            c == cache_ddriver_write(cdrv, buf, n)
            r == file_ddriver_write(rdev, buf, n)
        IN /\ cops < MaxCacheOps /\ ~halted
           /\ cdrv' = c.c
           /\ rdev' = r.d
           /\ written' = IF c.res.k = "ok" THEN WrittenBy(written, cdrv.offset, buf)
                         ELSE written
           /\ clast' = [Last("write", c.res, r.res, {}, FALSE, 0) EXCEPT
                           !.cecho = EchoWrite(cdrv.offset, buf, c.res),
                           !.recho = EchoWrite(rdev.pos, buf, r.res)]
           /\ halted' = (c.res.k = "panic" \/ r.res.k = "panic")
           /\ cops' = cops + 1
           /\ lastuse' = IF c.res.k = "ok"
                         THEN Touch(lastuse, TouchedByWrite(cdrv, n \div iounit_size), cops, 1)
                         ELSE lastuse
           /\ UNCHANGED aligned

CRead ==
    \E n \in Sizes :
        LET c == cache_ddriver_read(cdrv, n)
            r == file_ddriver_read(rdev, n)
        IN /\ cops < MaxCacheOps /\ ~halted
           /\ cdrv' = c.c
           /\ rdev' = r.d
           /\ clast' = [Last("read", c.res, r.res, {}, FALSE, 0) EXCEPT
                           !.cecho = EchoRead(clast.cecho, n),
                           !.recho = EchoRead(clast.recho, n)]
           /\ halted' = (c.res.k = "panic" \/ r.res.k = "panic")
           /\ cops' = cops + 1
           /\ lastuse' = IF c.res.k = "ok"
                         THEN Touch(lastuse, TouchedByRead(cdrv, n \div iounit_size), cops, 1)
                         ELSE lastuse
           /\ UNCHANGED <<written, aligned>>

CFlush ==
    LET c == cache_ddriver_flush(cdrv)
        r == file_ddriver_flush(rdev)
    IN /\ cops < MaxCacheOps /\ ~halted
       /\ cdrv' = c.c
       /\ rdev' = r.d
       /\ clast' = Last("flush", c.res, r.res, {}, FALSE,
                        Cardinality(DirtyTags(cdrv.cache)))
       /\ halted' = (c.res.k = "panic" \/ r.res.k = "panic")
       /\ cops' = cops + 1
       /\ lastuse' = IF c.res.k = "ok" THEN <<>> ELSE lastuse
       /\ UNCHANGED <<written, aligned>>

CClose ==
    LET c == cache_ddriver_close(cdrv)
        r == file_ddriver_close(rdev)
    IN /\ cops < MaxCacheOps /\ ~halted
       /\ cdrv' = c.c
       /\ rdev' = r.d
       /\ clast' = Last("close", c.res, r.res, c.pending, c.inner_called,
                        Cardinality(DirtyTags(cdrv.cache)))
       /\ halted' = (c.res.k = "panic" \/ r.res.k = "panic")
       /\ cops' = cops + 1
       /\ lastuse' = IF c.res.k = "ok" THEN <<>> ELSE lastuse
       /\ UNCHANGED <<written, aligned>>

CReset ==
    LET c == cache_ddriver_reset(cdrv)
        r == file_ddriver_reset(rdev)
    IN /\ cops < MaxCacheOps /\ ~halted
       /\ cdrv' = c.c
       /\ rdev' = r.d
       /\ written' = IF c.res.k = "ok" THEN <<>> ELSE written
       /\ clast' = Last("reset", c.res, r.res, c.pending, c.inner_called,
                        Cardinality(DirtyTags(cdrv.cache)))
       /\ halted' = (c.res.k = "panic" \/ r.res.k = "panic")
       /\ cops' = cops + 1
       /\ lastuse' = IF c.res.k = "ok" THEN <<>> ELSE lastuse
       /\ UNCHANGED aligned

\* ---- the filesystem object as RFS::new leaves it, over a blank disk ----
EmptyMap == [x \in {} |-> 0]

Ext2SuperBlockMem_default ==
    [s_inodes_count |-> 0, s_free_blocks_count |-> 0, s_free_inodes_count |-> 0,
     s_first_data_block |-> 0, s_log_block_size |-> 0, s_first_ino |-> 0]

EmptyVec == [len |-> 0, bits |-> {}]

NoOp == [op |-> "none", res |-> "ok", ino |-> 0, start |-> 0, n |-> 0,
         data |-> <<>>, ptrs |-> <<>>, allocs |-> <<>>, formatted |-> FALSE,
         forced |-> FALSE, dup |-> FALSE, pre |-> Ext2SuperBlockMem_default,
         shift |-> 0, calls |-> <<>>, parent |-> 0, name |-> "", before |-> <<>>,
         held |-> {}, written |-> 0, dest |-> [parent |-> 0, name |-> ""]]

RFS_new ==
    /\ mounted = FALSE
    /\ super_block = Ext2SuperBlockMem_default
    /\ group_desc_table = <<>>
    /\ filesystem_first_block = 0
    /\ bitmap_inode = EmptyVec
    /\ bitmap_data = EmptyVec

FsIdle ==
    /\ disk = EmptyMap
    /\ RFS_new
    /\ image = EmptyMap
    /\ dirs = {}
    /\ returned = [data |-> {}, inode |-> {}]
    /\ snap = [taken |-> FALSE]
    /\ flast = NoOp
    /\ fops = 0

InitCache == CacheIdle /\ FsIdle

NextCache ==
    \/ (CSeek /\ UNCHANGED fvars)
    \/ (CWrite /\ UNCHANGED fvars)
    \/ (CRead /\ UNCHANGED fvars)
    \/ (CFlush /\ UNCHANGED fvars)
    \/ (CClose /\ UNCHANGED fvars)
    \/ (CReset /\ UNCHANGED fvars)

SpecCache == InitCache /\ [][NextCache]_vars

(***************************************************************************)
(* SpecOpen: the cached device with ddriver_open issued at any time, and   *)
(* with a backing file that may start to answer with io::Error.            *)
(***************************************************************************)
COpen ==
    LET c == cache_ddriver_open(cdrv)
        r == file_ddriver_open(rdev)
    IN /\ cops < MaxCacheOps /\ ~halted
       /\ cdrv' = c.c
       /\ rdev' = r.d
       /\ clast' = Last("open", c.res, r.res, {}, FALSE,
                        Cardinality(DirtyTags(cdrv.cache)))
       /\ halted' = (c.res.k = "panic" \/ r.res.k = "panic")
       /\ cops' = cops + 1
       /\ lastuse' = IF c.res.k = "ok" THEN <<>> ELSE lastuse
       /\ UNCHANGED <<written, aligned>>

\* the environment: from now on File::seek, read and write of the file under
\* the cache fail
CFault ==
    /\ cops < MaxCacheOps /\ ~halted /\ ~cdrv.inner.fault
    /\ cdrv' = [cdrv EXCEPT !.inner.fault = TRUE]
    /\ clast' = Last("fault", NoRes, NoRes, {}, FALSE, 0)
    /\ cops' = cops + 1
    /\ UNCHANGED <<rdev, written, aligned, lastuse, halted>>

NextOpen ==
    \/ (CSeek /\ UNCHANGED fvars)
    \/ (CWrite /\ UNCHANGED fvars)
    \/ (CRead /\ UNCHANGED fvars)
    \/ (CFlush /\ UNCHANGED fvars)
    \/ (CClose /\ UNCHANGED fvars)
    \/ (CReset /\ UNCHANGED fvars)
    \/ (COpen /\ UNCHANGED fvars)
    \/ (CFault /\ UNCHANGED fvars)

SpecOpen == InitCache /\ [][NextOpen]_vars

(***************************************************************************)
(* SpecFile: the file device is opened on backing files of any length,     *)
(* present or not, and then used.                                          *)
(***************************************************************************)
BackingFiles ==
    {<<>>} \cup {<<[i \in 1..l |-> v]>> : l \in 0..(layout_size + iounit_size), v \in Vals}

FOpen ==
    \E file \in BackingFiles :
        LET r == file_ddriver_open_path(rdev, file)
        IN /\ cops < MaxCacheOps /\ ~halted
           /\ rdev' = r.d
           /\ clast' = [Last("open_path", NoRes, r.res, {}, FALSE, 0) EXCEPT !.file = file]
           /\ halted' = (r.res.k = "panic")
           /\ cops' = cops + 1
           /\ UNCHANGED <<cdrv, written, aligned, lastuse>>

NextFile ==
    \/ (FOpen /\ UNCHANGED fvars)
    \/ (CSeek /\ UNCHANGED fvars)
    \/ (CWrite /\ UNCHANGED fvars)
    \/ (CRead /\ UNCHANGED fvars)

SpecFile == InitCache /\ [][NextFile]_vars

(***************************************************************************)
(* Claims about the cached device                                          *)
(***************************************************************************)
\* every unit written through the cache is stored in the inner device
WrittenInInner ==
    \A t \in DOMAIN written : InnerUnit(cdrv.inner, t) = written[t]

\* C3 (as claimed): with unit-aligned requests, every seek and every read on
\* the cached device returns what the same request returns on the wrapped
\* device used directly.
C3_SameAsInner ==
    (aligned /\ clast.op \in {"seek", "read"}) => clast.cres = clast.rres

\* C4: after ddriver_flush returns Ok, every block written through the cache
\* reads back from the inner device with the bytes last written, and the
\* cache holds no slots.
C4_FlushWritesBack ==
    (clast.op = "flush" /\ clast.cres.k = "ok") =>
        (cdrv.cache = <<>> /\ WrittenInInner)

C4_Witness ==
    /\ clast.op = "flush" /\ clast.cres.k = "ok" /\ clast.wrote > 0
    /\ Cardinality(DOMAIN written) > CacheSize

\* C5: when ddriver_close or ddriver_reset reaches the inner device, no dirty
\* slot is left in the cache, and after close every block written through the
\* cache is stored in the inner device.
C5_FlushBeforeCloseReset ==
    (clast.op \in {"close", "reset"} /\ clast.inner_called) =>
        /\ clast.pending = {}
        /\ DirtyTags(cdrv.cache) = {}
        /\ (clast.op = "close" => WrittenInInner)

C5_Witness ==
    /\ clast.op = "close" /\ clast.inner_called /\ clast.wrote > 0
    /\ written # <<>>

(***************************************************************************)
(* Filesystem (RFS<FileDiskDriver>): constants of the sources              *)
(***************************************************************************)
FILE_DISK_SIZE == 4194304       \* bytes of the backing file
BSIZE == 1024                   \* block size of the built-in layout
InodeTableBlocks == 128         \* "Inode Table(128)" of the built-in layout
EXT2_INODE_SIZE == 128          \* size_of::<Ext2INode>()
EXT2_ROOT_INO == 2
EXT2_GOOD_OLD_FIRST_INO == 11   \* s_first_ino of Ext2SuperBlock::default()
EXT2_SUPER_MAGIC == 61267       \* 0xEF53
RegularFile == 8                \* Ext2FileType::RegularFile
Directory == 4                  \* Ext2FileType::Directory
EXT2_FT_DIR == 2
EXT2_NAME_LEN == 255
usize_MAX == -1                 \* stands for usize::MAX
DirMode == 493                  \* 0o755, the mode rfs_init passes for the root

(***************************************************************************)
(* Blocks.  The disk is a sparse map from block number to content; a block *)
(* never written holds zeros.  A content is [k, v]: k tells which structure*)
(* was serialised into the block, v is that structure.  Reading a block as *)
(* another structure than the one written yields the zero structure unless *)
(* stated otherwise (no reachable state of Spec does so).                  *)
(***************************************************************************)
Put(m, key, val) == [x \in DOMAIN m \cup {key} |-> IF x = key THEN val ELSE m[x]]
Get(m, key) == IF key \in DOMAIN m THEN m[key] ELSE 0

ZeroBlock == [k |-> "zero", v |-> 0]
MkBitmap(bits) == IF bits = {} THEN ZeroBlock ELSE [k |-> "bitmap", v |-> bits]
MkIndex(m) == IF DOMAIN m = {} THEN ZeroBlock ELSE [k |-> "index", v |-> m]
MkData(pat) == IF pat = 0 THEN ZeroBlock ELSE [k |-> "data", v |-> pat]
AsBitmap(c) == IF c.k = "bitmap" THEN c.v ELSE {}
AsIndex(c) == IF c.k = "index" THEN c.v ELSE EmptyMap
AsInodes(c) == IF c.k = "inodes" THEN c.v ELSE EmptyMap
AsDir(c) == IF c.k = "dir" THEN c.v ELSE EmptyMap
AsData(c) == IF c.k = "data" THEN c.v ELSE IF c.k = "zero" THEN 0 ELSE -1

block_size(fs) == Pow2(fs.super_block.s_log_block_size) * 1024
get_group_desc(fs) == fs.group_desc_table[1]

get_data_block(fs, block) ==
    IF block \in DOMAIN fs.disk THEN fs.disk[block] ELSE ZeroBlock

write_data_block(fs, block, content) ==
    [fs EXCEPT !.disk = Put(@, block, content)]

(***************************************************************************)
(* Bitmaps and the allocator                                               *)
(***************************************************************************)
RECURSIVE bitmap_scan(_, _)
bitmap_scan(bitmap, pos) ==
    IF pos >= 8 * bitmap.len THEN 0
    ELSE IF pos \notin bitmap.bits THEN pos + 1
    ELSE bitmap_scan(bitmap, pos + 1)

\* first zero bit at or after byte `reserved`, as i * 8 + j + 1; 0 is
\* Err("Bitmap full!")
\* the loop of bitmap_search taken step bits at a time while all of them are
\* set: the position the bit-by-bit scan goes on from
RECURSIVE bitmap_skip(_, _, _)
bitmap_skip(bitmap, pos, step) ==
    IF pos + step <= 8 * bitmap.len /\ pos..(pos + step - 1) \subseteq bitmap.bits
    THEN bitmap_skip(bitmap, pos + step, step)
    ELSE pos

bitmap_search(bitmap, reserved) ==
    IF (8 * reserved)..(8 * bitmap.len - 1) \subseteq bitmap.bits THEN 0
    ELSE bitmap_scan(bitmap, bitmap_skip(bitmap, bitmap_skip(bitmap, 8 * reserved, 512), 32))

bitmap_set_shifted(bitmap, index) ==
    [bitmap EXCEPT !.bits = @ \cup {index}]

bitmap_set(bitmap, index) ==
    LET i == IF index = 0 THEN 0 ELSE index - 1
    IN  [bitmap EXCEPT !.bits = @ \cup {i}]

allocate_bitmap_unsaved(fs, bitmap_block, is_data) ==
    LET bitmap == IF is_data THEN fs.bitmap_data ELSE fs.bitmap_inode
        reserved_blocks ==
            1 + 1 + 1 + 1 + 1 + fs.super_block.s_inodes_count \div EXT2_INODE_SIZE + 1
        block_free == bitmap_search(bitmap,
            IF is_data THEN reserved_blocks ELSE fs.super_block.s_first_ino + 1)
        after == bitmap_set(bitmap, block_free)
        rec == [data |-> is_data, index |-> block_free,
                before |-> bitmap.bits, after |-> after.bits]
    IN  IF block_free = 0 THEN [ok |-> FALSE, index |-> 0, fs |-> fs]
        ELSE [ok |-> TRUE, index |-> block_free,
              fs |-> IF is_data
                     THEN [fs EXCEPT !.bitmap_data = after, !.allocs = Append(@, rec)]
                     ELSE [fs EXCEPT !.bitmap_inode = after, !.allocs = Append(@, rec)]]

\* an allocation that returns the free index and leaves its bit clear
allocate_bitmap_unset(fs, bitmap_block, is_data) ==
    LET bitmap == IF is_data THEN fs.bitmap_data ELSE fs.bitmap_inode
        reserved_blocks ==
            1 + 1 + 1 + 1 + 1 + fs.super_block.s_inodes_count \div EXT2_INODE_SIZE + 1
        block_free == bitmap_search(bitmap,
            IF is_data THEN reserved_blocks ELSE fs.super_block.s_first_ino + 1)
        rec == [data |-> is_data, index |-> block_free,
                before |-> bitmap.bits, after |-> bitmap.bits]
    IN  IF block_free = 0 THEN [ok |-> FALSE, index |-> 0, fs |-> fs]
        ELSE [ok |-> TRUE, index |-> block_free,
              fs |-> [fs EXCEPT !.allocs = Append(@, rec)]]

allocate_bitmap(fs, bitmap_block, is_data) ==
    LET bitmap == IF is_data THEN fs.bitmap_data ELSE fs.bitmap_inode
        reserved_blocks ==
            1 + 1 + 1 + 1 + 1 + fs.super_block.s_inodes_count \div EXT2_INODE_SIZE + 1
        block_free == bitmap_search(bitmap,
            IF is_data THEN reserved_blocks ELSE fs.super_block.s_first_ino + 1)
        after == bitmap_set(bitmap, block_free)
        rec == [data |-> is_data, index |-> block_free,
                before |-> bitmap.bits, after |-> after.bits]
        saved == write_data_block(fs, bitmap_block, MkBitmap(after.bits))
    IN  IF block_free = 0 THEN [ok |-> FALSE, index |-> 0, fs |-> fs]
        ELSE [ok |-> TRUE, index |-> block_free,
              fs |-> IF is_data
                     THEN [saved EXCEPT !.bitmap_data = after, !.allocs = Append(@, rec)]
                     ELSE [saved EXCEPT !.bitmap_inode = after, !.allocs = Append(@, rec)]]

allocate_block(fs) == allocate_bitmap(fs, get_group_desc(fs).bg_block_bitmap, TRUE)
allocate_inode(fs) == allocate_bitmap(fs, get_group_desc(fs).bg_inode_bitmap, FALSE)

(***************************************************************************)
(* Inodes                                                                  *)
(***************************************************************************)
Ext2INode_default ==
    [i_mode |-> 0, i_size |-> 0, i_size_high |-> 0, i_blocks |-> 0,
     i_uid |-> 0, i_uid_high |-> 0, i_gid |-> 0, i_gid_high |-> 0,
     i_block |-> [i \in 0..14 |-> 0]]

fetch_inode_block_offset(fs, ino) ==
    LET inodes_per_block == block_size(fs) \div EXT2_INODE_SIZE
        ino1 == IF ino <= 1 THEN ino ELSE ino - 1
    IN  [offset |-> (ino1 % inodes_per_block) * EXT2_INODE_SIZE,
         block_number |-> ino1 \div inodes_per_block + get_group_desc(fs).bg_inode_table]

get_inode(fs, ino) ==
    LET p == fetch_inode_block_offset(fs, ino)
        buf == AsInodes(get_data_block(fs, p.block_number))
    IN  IF p.offset \in DOMAIN buf THEN buf[p.offset] ELSE Ext2INode_default

set_inode(fs, ino, inode) ==
    LET p == fetch_inode_block_offset(fs, ino)
        buf == AsInodes(get_data_block(fs, p.block_number))
    IN  write_data_block(fs, p.block_number,
                         [k |-> "inodes", v |-> Put(buf, p.offset, inode)])

threshold(fs, l) ==
    LET layer == block_size(fs) \div 4
    IN  CASE l = 0 -> 12
          [] l = 1 -> 12 + layer
          [] l = 2 -> 12 + layer + layer * layer
          [] l = 3 -> 11 + layer + layer * 2 + layer * layer

(***************************************************************************)
(* Directory entries.  An entry is [inode, rec_len, name_len, file_type,   *)
(* name, bytes]: name is name[..name_len], bytes counts the leading        *)
(* non-zero bytes of the name array (what name_len() returns).  A directory*)
(* block is a map from byte offset to the entry serialised there.          *)
(***************************************************************************)
up_align(value, align_log) == ((value \div Pow2(align_log)) + 1) * Pow2(align_log)

update_name(e, name) ==
    LET bytes == Max(e.bytes, Len(name))
    IN  [e EXCEPT !.name = name, !.name_len = Len(name), !.bytes = bytes,
                  !.rec_len = up_align(4 + 2 + 1 + 1 + bytes, 2)]

Ext2DirEntry_new(name, inode, file_type) ==
    update_name([inode |-> inode, rec_len |-> 0, name_len |-> 0,
                 file_type |-> file_type, name |-> "", bytes |-> 0], name)

Ext2DirEntry_default ==
    [inode |-> 0, rec_len |-> 0, name_len |-> 0, file_type |-> 0,
     name |-> "", bytes |-> 0]

\* data_block[o..o + n] = serialize_row(e)[..n]
PutEntry(m, o, n, e) ==
    [x \in {y \in DOMAIN m : y < o \/ y >= o + n} \cup {o} |->
        IF x = o THEN e ELSE m[x]]

\* The loop of get_block_dir_entries.  When p reaches the end of the block
\* the code deserialises an entry from the memory behind the buffer; junk
\* tells whether those bytes pass for an entry.
RECURSIVE dir_scan(_, _, _, _, _)
dir_scan(fs, m, p, acc, junk) ==
    IF p > block_size(fs) THEN [entries |-> acc, ub |-> FALSE]
    ELSE IF p = block_size(fs) THEN [entries |-> acc, ub |-> junk]
    ELSE LET dir == IF p \in DOMAIN m THEN m[p] ELSE Ext2DirEntry_default
         IN  IF dir.inode = 0 \/ dir.inode >= fs.super_block.s_inodes_count
                \/ dir.rec_len = 0
             THEN [entries |-> acc, ub |-> FALSE]
             ELSE dir_scan(fs, m, p + dir.rec_len, Append(acc, dir), junk)

get_block_dir_entries(fs, block, junk) ==
    IF block = 0 THEN [entries |-> <<>>, ub |-> FALSE]
    ELSE dir_scan(fs, AsDir(get_data_block(fs, block)), 0, <<>>, junk)

RECURSIVE Flatten(_, _, _, _)
Flatten(fs, inode, i, acc) ==
    IF i >= 12 THEN acc
    ELSE Flatten(fs, inode, i + 1,
                 acc \o get_block_dir_entries(fs, inode.i_block[i], FALSE).entries)

\* [ok, entries]; ok is FALSE when ino is not a directory
get_dir_entries(fs, ino) ==
    LET inode == get_inode(fs, ino)
    IN  IF inode.i_mode \div 4096 # Directory THEN [ok |-> FALSE, entries |-> <<>>]
        ELSE [ok |-> TRUE, entries |-> Flatten(fs, inode, 0, <<>>)]

\* the first entry of the parent that carries the name
find_entry(entries, name) ==
    LET hits == {i \in 1..Len(entries) : entries[i].name = name}
    IN  IF hits = {} THEN 0
        ELSE entries[CHOOSE i \in hits : \A j \in hits : i <= j].inode

\* the inode number found, 0 for Err("file not found")
rfs_lookup(fs, parent, name) == find_entry(get_dir_entries(fs, parent).entries, name)

RECURSIVE SumRecLen(_, _)
SumRecLen(entries, n) ==
    IF n = 0 THEN 0 ELSE entries[n].rec_len + SumRecLen(entries, n - 1)

\* the closure init_directory of make_node
init_directory(fs, entry, inode, data_block_free, parent) ==
    LET bs == block_size(fs)
        inode1 == [inode EXCEPT !.i_blocks = 1, !.i_size = bs,
                                !.i_block[0] = data_block_free]
        dir_parent == Ext2DirEntry_new("..", parent, EXT2_FT_DIR)
        entries == IF entry.name = "."
                   THEN <<dir_parent>>
                   ELSE <<update_name(entry, "."), dir_parent>>
        n == Len(entries)
        offset == SumRecLen(entries, n - 1)
        entry_last == [entries[n] EXCEPT !.rec_len = bs - offset]
        head == IF n = 1 THEN EmptyMap
                ELSE PutEntry(EmptyMap, 0, entries[1].rec_len, entries[1])
    IN  [block_data |-> PutEntry(head, offset, entries[n].rec_len, entry_last),
         inode |-> inode1]

(***************************************************************************)
(* make_node.  The result is [fs, res, ino, inode]; res is "ok", "err"     *)
(* (an Err return), "panic" (assert!/panic!/slice bounds) or "ub" (the     *)
(* directory scan took the memory behind its buffer for an entry).  The    *)
(* function is split where a value it computes is used by all that follows.*)
(***************************************************************************)
MaxOf(S) == CHOOSE x \in S : \A y \in S : y <= x

Outcome(fs, res, ino, inode) == [fs |-> fs, res |-> res, ino |-> ino, inode |-> inode]

\* where the new entry goes: the parent's inode, its block last_block_i, the
\* entries found there, the offset after them
Place(fs, res, inode_parent, last_block_i, parent_enties, offset_cnt, reset_last_rec_len, init_directory_done) ==
    [fs |-> fs, res |-> res, inode_parent |-> inode_parent,
     last_block_i |-> last_block_i, parent_enties |-> parent_enties,
     offset_cnt |-> offset_cnt, reset_last_rec_len |-> reset_last_rec_len,
     init_directory_done |-> init_directory_done]

\* lines 864-928: write the new entry into the parent block, initialise the
\* node and store both inodes
make_node_append(parent, entry, inode, node_type, data_block_free, ino_free, m) ==
    LET bs == block_size(m.fs)
        blk == m.inode_parent.i_block[m.last_block_i]
        data_block0 == AsDir(get_data_block(m.fs, blk))
        tail == Len(m.parent_enties)
        old_last == m.parent_enties[tail]
        offset_start == bs - old_last.rec_len
        new_last == [old_last EXCEPT !.rec_len = up_align(old_last.name_len + 8, 4)]
        data_block1 == IF m.reset_last_rec_len
                       THEN PutEntry(data_block0, offset_start, new_last.rec_len, new_last)
                       ELSE data_block0
        offset_cnt == IF m.reset_last_rec_len
                      THEN offset_start + new_last.rec_len ELSE m.offset_cnt
        old_rec_len == entry.rec_len
        offset_next == offset_cnt + old_rec_len
        entry1 == [entry EXCEPT !.rec_len = bs - offset_cnt]
        data_block2 == PutEntry(data_block1, offset_cnt, old_rec_len, entry1)
        init == init_directory(m.fs, entry1, inode, data_block_free, parent)
        inode1 == IF node_type = Directory
                  THEN (IF m.init_directory_done THEN inode ELSE init.inode)
                  ELSE IF node_type = RegularFile
                  THEN [inode EXCEPT !.i_block[0] = data_block_free]
                  ELSE inode
    IN  IF m.res # "ok" THEN Outcome(m.fs, m.res, 0, inode)
        ELSE IF (m.reset_last_rec_len /\ (offset_start < 0 \/ offset_cnt > bs))
                \/ offset_cnt > bs \/ offset_next > bs
        THEN Outcome(m.fs, "panic", 0, inode)
        ELSE Outcome(
                 set_inode(
                     set_inode(
                         IF node_type = Directory /\ ~m.init_directory_done
                         THEN write_data_block(
                                  write_data_block(m.fs, blk, [k |-> "dir", v |-> data_block2]),
                                  data_block_free, [k |-> "dir", v |-> init.block_data])
                         ELSE write_data_block(m.fs, blk, [k |-> "dir", v |-> data_block2]),
                         ino_free, inode1),
                     parent, m.inode_parent),
                 "ok", ino_free, inode1)

\* a further block that the parent inode does not get to point to
make_node_grow_unlinked(inode_parent, last_block_i, init_directory_done, junk, a) ==
    LET scan2 == get_block_dir_entries(a.fs, a.index, junk)
    IN  IF ~a.ok
        THEN Place(a.fs, "err", inode_parent, last_block_i, <<>>, 0, FALSE, init_directory_done)
        ELSE IF scan2.ub
        THEN Place(a.fs, "ub", inode_parent, last_block_i, <<>>, 0, FALSE, init_directory_done)
        ELSE Place(a.fs, "ok", inode_parent, last_block_i + 1, scan2.entries,
                   SumRecLen(scan2.entries, Len(scan2.entries)), FALSE,
                   init_directory_done)

\* lines 847-861: the entry does not fit, it starts a further block
make_node_grow(inode_parent, last_block_i, init_directory_done, junk, a) ==
    LET scan2 == get_block_dir_entries(a.fs, a.index, junk)
    IN  IF ~a.ok
        THEN Place(a.fs, "err", inode_parent, last_block_i, <<>>, 0, FALSE, init_directory_done)
        ELSE IF scan2.ub
        THEN Place(a.fs, "ub", inode_parent, last_block_i, <<>>, 0, FALSE, init_directory_done)
        ELSE Place(a.fs, "ok",
                   [inode_parent EXCEPT !.i_block[last_block_i + 1] = a.index],
                   last_block_i + 1, scan2.entries,
                   SumRecLen(scan2.entries, Len(scan2.entries)), FALSE,
                   init_directory_done)

\* lines 828-845: measure the entries of the parent's last block
make_node_measure(fs, entry, inode_parent, last_block_i, init_directory_done, junk, scan) ==
    LET bs == block_size(fs)
        parent_enties == scan.entries
        n == Len(parent_enties)
        fits == n > 0 /\
                parent_enties[n].rec_len - (8 + parent_enties[n].name_len) >= entry.rec_len
        offset_cnt == IF n = 0 THEN 0
                      ELSE SumRecLen(parent_enties, n - 1) +
                           (IF fits THEN parent_enties[n].name_len + 8
                            ELSE parent_enties[n].rec_len)
    IN  IF scan.ub
        THEN Place(fs, "ub", inode_parent, last_block_i, <<>>, 0, FALSE, init_directory_done)
        ELSE IF ~(offset_cnt + entry.rec_len >= bs)
        THEN Place(fs, "ok", inode_parent, last_block_i, parent_enties, offset_cnt, fits,
                   init_directory_done)
        ELSE IF last_block_i = 11
        THEN Place(fs, "panic", inode_parent, last_block_i, <<>>, 0, FALSE,
                   init_directory_done)
        ELSE make_node_grow(inode_parent, last_block_i, init_directory_done, junk,
                            allocate_block(fs))

\* lines 826-861: find the place of the new entry in the parent; p is the
\* parent as the lines before left it
make_node_place(entry, junk, p) ==
    IF p.res # "ok" THEN p
    ELSE IF p.last_block_i \in {12, 13, 14}
    THEN [p EXCEPT !.res = "panic"]
    ELSE make_node_measure(p.fs, entry, p.inode_parent, p.last_block_i,
                           p.init_directory_done, junk,
                           get_block_dir_entries(p.fs, p.inode_parent.i_block[p.last_block_i],
                                                 junk))

\* lines 804-825 for a parent without a block: a directory gives it one
make_node_first(parent, mode, file_type, entry, inode_parent, a3) ==
    LET \* mode | (file_type << 12): the callers reaching this line pass a mode
        \* below 1 << 12
        parent_default == [Ext2INode_default EXCEPT
                             !.i_size = block_size(a3.fs), !.i_blocks = 1,
                             !.i_mode = (mode + file_type * 4096) % 65536]
        blank == inode_parent.i_blocks = 0 /\ inode_parent.i_size = 0
                 /\ inode_parent.i_mode = 0
        init == init_directory(a3.fs, entry,
                               IF blank THEN parent_default ELSE inode_parent,
                               a3.index, parent)
    IN  IF ~a3.ok THEN Place(a3.fs, "err", inode_parent, 0, <<>>, 0, FALSE, FALSE)
        ELSE Place(write_data_block(a3.fs, a3.index, [k |-> "dir", v |-> init.block_data]),
                   "ok", init.inode, 0, <<>>, 0, FALSE, TRUE)

\* lines 745-825: the parent's last used block
make_node_parent(parent, mode, node_type, entry, inode_parent, a2) ==
    LET used == {i \in 0..14 : inode_parent.i_block[i] # 0}
    IN  IF ~a2.ok THEN Place(a2.fs, "err", inode_parent, 0, <<>>, 0, FALSE, FALSE)
        ELSE IF used # {}
        THEN Place(a2.fs, "ok", inode_parent, MaxOf(used), <<>>, 0, FALSE, FALSE)
        ELSE IF node_type # Directory
        THEN Place(a2.fs, "panic", inode_parent, 0, <<>>, 0, FALSE, FALSE)
        ELSE make_node_first(parent, mode, node_type, entry, inode_parent,
                             allocate_block(a2.fs))

\* lines 727-929 once the inode number and the data block are known
make_node_entry(parent, mode, node_type, junk, inode_parent, ino_free, entry, inode, a2) ==
    make_node_append(parent, entry, inode, node_type, a2.index, ino_free,
        make_node_place(entry, junk,
            make_node_parent(parent, mode, node_type, entry, inode_parent, a2)))

\* lines 727-741 once the inode number is known
make_node_blocks(parent, name, mode, node_type, junk, inode_parent, a1) ==
    LET file_type == node_type
        inode == [Ext2INode_default EXCEPT
                    !.i_mode = (mode % 4096) + ((file_type * 4096) % 65536)]
    IN  IF ~a1.ok THEN Outcome(a1.fs, "err", 0, inode)
        \* Ext2DirEntry::new: assert!(name_bytes.len() < EXT2_NAME_LEN)
        ELSE IF Len(name) >= EXT2_NAME_LEN THEN Outcome(a1.fs, "panic", 0, inode)
        ELSE make_node_entry(parent, mode, node_type, junk, inode_parent, a1.index,
                             Ext2DirEntry_new(name, a1.index, file_type % 256), inode,
                             IF node_type \in {Directory, RegularFile}
                             THEN allocate_block(a1.fs)
                             ELSE [ok |-> TRUE, index |-> 0, fs |-> a1.fs])

make_node(fs, parent, name, mode, node_type, junk) ==
    make_node_blocks(parent, name, mode, node_type, junk,
                     get_inode(fs, parent), allocate_inode(fs))

(***************************************************************************)
(* visit_blocks_inode.  The traversal state v is                           *)
(*   [fs, inode, inode_modified, layer_index, layer_modified, layer_data,  *)
(*    cl, res]                                                             *)
(* where cl is the state captured by the closure f of rfs_read / rfs_write *)
(* and c = [write, ino, block_index, offset, size] is the request.  An     *)
(* index table is a sparse map from slot (byte offset / 4) to block number.*)
(* Each tier is split where a value it computes (the loaded table, the     *)
(* closure's answer, an allocated block) is used by all that follows.      *)
(***************************************************************************)
\* calls is history: every invocation of f as [block, index, cont, need]
NewClosure ==
    [blocks |-> <<>>, last_index |-> 0, last_zero_index |-> usize_MAX, calls |-> <<>>]

\* the closure passed by rfs_read (c.write = FALSE) and rfs_write
Closure(fs, c, cl, block, index) ==
    LET sz == block_size(fs)
        will_continue == (index + 1) * sz - c.offset < c.size
        need_allocate == block = 0 /\ c.write /\ index * sz - c.offset < c.size
        logged == [cl EXCEPT !.calls = Append(@, [block |-> block, index |-> index,
                                                  cont |-> will_continue,
                                                  need |-> need_allocate])]
        pushed == [logged EXCEPT !.blocks = Append(@, block), !.last_index = index]
    IN  IF block = 0
        THEN IF c.write
             THEN [cl |-> [logged EXCEPT !.last_zero_index = index],
                   panic |-> cl.last_zero_index = index,
                   cont |-> will_continue,
                   need |-> index * sz - c.offset < c.size]
             ELSE [cl |-> logged, panic |-> FALSE, cont |-> will_continue, need |-> FALSE]
        ELSE [cl |-> pushed,
              panic |-> block * sz > FILE_DISK_SIZE
                        \/ (cl.last_index # 0 /\ cl.last_index + 1 # index),
              cont |-> will_continue, need |-> FALSE]

Finish(v, res) == [v EXCEPT !.res = res]

save_inode_and_exit(v, c, modified) ==
    Finish(IF modified THEN [v EXCEPT !.fs = set_inode(@, c.ino, v.inode)] ELSE v, "ok")

\* lines 519-522: write the table of layer l back when it was modified
dump_layer(saved, l) ==
    IF saved.layer_modified[l] /\ saved.layer_index[l] # 0
       /\ saved.layer_index[l] # usize_MAX
    THEN [saved EXCEPT !.fs = write_data_block(@, saved.layer_index[l],
                                               MkIndex(saved.layer_data[l])),
                       !.layer_modified[l] = FALSE]
    ELSE saved

dump_index_table(v, c, l) ==
    dump_layer([v EXCEPT !.fs = set_inode(@, c.ino, v.inode)], l)

\* read_data_block(block_number, &mut layer_data[l]); layer_index[l] = block_number
load_layer(v, l, block_number) ==
    [v EXCEPT !.layer_data[l] = AsIndex(get_data_block(v.fs, block_number)),
              !.layer_index[l] = block_number]

\* lines 530-537 and 577-584 with the block a that allocate_block returned
tier_block(v, slot, a) ==
    IF ~a.ok THEN Finish([v EXCEPT !.fs = a.fs], "err")
    ELSE load_layer([v EXCEPT !.fs = write_data_block(a.fs, a.index, ZeroBlock),
                              !.inode.i_block[slot] = a.index],
                    0, 0)

\* a traversal that takes a new index block for the tier on every entry
enter_tier_always(v, slot) == tier_block(v, slot, allocate_block(v.fs))

\* lines 527-538 and 574-585: give the inode its index block for this tier
enter_tier(v, slot) ==
    IF v.inode.i_block[slot] # 0 THEN v ELSE tier_block(v, slot, allocate_block(v.fs))

\* lines 540-547 and 588-595: make layer_data[0] the table of i_block[slot]
load_base(v, c, slot) ==
    IF v.layer_index[0] # v.inode.i_block[slot] /\ v.inode.i_block[slot] # 0
    THEN load_layer(dump_index_table(v, c, 0), 0, v.inode.i_block[slot])
    ELSE v

\* lines 648-684: the third tier
visit_L3(v, c) ==
    LET layer_size == block_size(v.fs) \div 4
        i == threshold(v.fs, 2)
        block_number == v.inode.i_block[14]
        v1 == IF v.layer_index[0] # block_number
              THEN load_layer(v, 0, block_number)
              ELSE v
        offset == ((i - threshold(v.fs, 1)) * 4) \div layer_size
    IN  \* layer_data[0][offset..offset + 4] lies behind the block
        IF offset + 4 > block_size(v.fs) THEN Finish(v1, "panic")
        ELSE Finish(v1, "tier3")

RECURSIVE visit_L2(_, _, _), visit_L2_loop(_, _, _)
\* lines 631-637: the closure asked to stop; e1 is the state after both dumps
visit_L2_exit(e1, c) ==
    save_inode_and_exit(IF e1.layer_modified[0]
                        THEN [e1 EXCEPT !.fs = set_inode(@, c.ino, e1.inode)]
                        ELSE e1,
                        c, e1.layer_modified[1])

\* lines 627-629 with the block a2 that allocate_block returned
visit_L2_alloc(v3, c, i, slot2, a2) ==
    IF ~a2.ok THEN Finish([v3 EXCEPT !.fs = a2.fs], "err")
    ELSE visit_L2_loop([v3 EXCEPT !.fs = a2.fs,
                                  !.layer_data[1] = Put(@, slot2, a2.index),
                                  !.layer_modified[1] = TRUE],
                       c, i)

\* lines 627-629: the closure asked for a block at position i
visit_L2_need(v3, c, i, slot2) == visit_L2_alloc(v3, c, i, slot2, allocate_block(v3.fs))

\* lines 617-626 with the block a1 that allocate_block returned for the
\* second-level table
visit_L2_table(v2, c, i, slot, slot2, a1) ==
    IF ~a1.ok THEN Finish([v2 EXCEPT !.fs = a1.fs], "err")
    ELSE visit_L2_need(
             load_layer([v2 EXCEPT !.fs = write_data_block(a1.fs, a1.index, ZeroBlock),
                                   !.layer_data[0] = Put(@, slot, a1.index),
                                   !.layer_modified[0] = TRUE],
                        1, a1.index),
             c, i, slot2)

\* lines 609-639 with the second-level table loaded
visit_L2_block(v1, c, i, slot, block_number2) ==
    LET layer_size == block_size(v1.fs) \div 4
        slot2 == (i - 12) % layer_size
        r == Closure(v1.fs, c, v1.cl, Get(v1.layer_data[1], slot2), i)
        v2 == [v1 EXCEPT !.cl = r.cl]
    IN  IF r.panic THEN Finish(v2, "panic")
        ELSE IF r.need
        THEN IF block_number2 = 0
             THEN visit_L2_table(v2, c, i, slot, slot2, allocate_block(v2.fs))
             ELSE visit_L2_need(v2, c, i, slot2)
        ELSE IF ~r.cont
        THEN visit_L2_exit(dump_index_table(dump_index_table(v2, c, 0), c, 1), c)
        ELSE visit_L2(v2, c, i + 1)

\* lines 597-607 with the first-level table loaded
visit_L2_base(v0, c, i) ==
    LET layer_size == block_size(v0.fs) \div 4
        slot == (i - threshold(v0.fs, 1)) \div layer_size
        block_number2 == Get(v0.layer_data[0], slot)
    IN  visit_L2_block(IF v0.layer_index[1] # block_number2 /\ block_number2 # 0
                       THEN load_layer(dump_index_table(v0, c, 1), 1, block_number2)
                       ELSE v0,
                       c, i, slot, block_number2)

visit_L2_loop(v, c, i) == visit_L2_base(load_base(v, c, 13), c, i)

\* lines 573-585 with the tier entered
visit_L2_tier(v1, c, i) == IF v1.res # "run" THEN v1 ELSE visit_L2_loop(v1, c, i)

visit_L2(v, c, i) ==
    IF i >= threshold(v.fs, 2)
    THEN visit_L3(dump_index_table(dump_index_table(v, c, 0), c, 1), c)
    ELSE visit_L2_tier(enter_tier(v, 13), c, i)

RECURSIVE visit_L1(_, _, _), visit_L1_loop(_, _, _)
\* lines 559-562: the closure asked to stop; e is the state after the dump
visit_L1_exit(e, c) == save_inode_and_exit(e, c, e.layer_modified[0])

\* lines 554-557 with the block a that allocate_block returned
visit_L1_alloc(v2, c, i, slot, a) ==
    IF ~a.ok THEN Finish([v2 EXCEPT !.fs = a.fs], "err")
    ELSE visit_L1_loop([v2 EXCEPT !.fs = a.fs,
                                  !.layer_data[0] = Put(@, slot, a.index),
                                  !.layer_modified[0] = TRUE],
                       c, i)

\* lines 548-564 with the table loaded
visit_L1_block(v1, c, i) ==
    LET slot == i - threshold(v1.fs, 0)
        r == Closure(v1.fs, c, v1.cl, Get(v1.layer_data[0], slot), i)
        v2 == [v1 EXCEPT !.cl = r.cl]
    IN  IF r.panic THEN Finish(v2, "panic")
        ELSE IF r.need THEN visit_L1_alloc(v2, c, i, slot, allocate_block(v2.fs))
        ELSE IF ~r.cont THEN visit_L1_exit(dump_index_table(v2, c, 0), c)
        ELSE visit_L1(v2, c, i + 1)

visit_L1_loop(v, c, i) == visit_L1_block(load_base(v, c, 12), c, i)

\* lines 526-539 with the tier entered
visit_L1_tier(v1, c, i) == IF v1.res # "run" THEN v1 ELSE visit_L1_loop(v1, c, i)

visit_L1(v, c, i) ==
    IF i >= threshold(v.fs, 1)
    THEN visit_L2(dump_index_table(v, c, 0), c, Max(c.block_index, threshold(v.fs, 1)))
    ELSE visit_L1_tier(enter_tier(v, 12), c, i)

RECURSIVE visit_direct(_, _, _)
\* a traversal that moves on after an allocation instead of calling f again
visit_direct_alloc_skip(v1, c, i, a) ==
    IF ~a.ok THEN Finish([v1 EXCEPT !.fs = a.fs], "err")
    ELSE visit_direct([v1 EXCEPT !.fs = a.fs,
                                 !.inode.i_block[i] = a.index,
                                 !.inode_modified = TRUE],
                      c, i + 1)

\* lines 499-503 with the block a that allocate_block returned
visit_direct_alloc(v1, c, i, a) ==
    IF ~a.ok THEN Finish([v1 EXCEPT !.fs = a.fs], "err")
    ELSE visit_direct([v1 EXCEPT !.fs = a.fs,
                                 !.inode.i_block[i] = a.index,
                                 !.inode_modified = TRUE],
                      c, i)

visit_direct(v, c, i) ==
    IF i >= threshold(v.fs, 0)
    THEN visit_L1(v, c, Max(c.block_index, threshold(v.fs, 0)))
    ELSE LET r == Closure(v.fs, c, v.cl, v.inode.i_block[i], i)
             v1 == [v EXCEPT !.cl = r.cl]
         IN  IF r.panic THEN Finish(v1, "panic")
             ELSE IF r.need THEN visit_direct_alloc(v1, c, i, allocate_block(v1.fs))
             ELSE IF ~r.cont THEN save_inode_and_exit(v1, c, v1.inode_modified)
             ELSE visit_direct(v1, c, i + 1)

visit_blocks_inode(fs, c) ==
    visit_direct([fs |-> fs, inode |-> get_inode(fs, c.ino), inode_modified |-> FALSE,
                  layer_index |-> [l \in 0..2 |-> usize_MAX],
                  layer_modified |-> [l \in 0..2 |-> FALSE],
                  layer_data |-> [l \in 0..2 |-> EmptyMap],
                  cl |-> NewClosure, res |-> "run"],
                 c, c.block_index)

(***************************************************************************)
(* rfs_read, rfs_write.  A request covers whole blocks; a buffer is a      *)
(* sequence of block patterns (0 for a block of zeros).                    *)
(***************************************************************************)
Request(fs, write, ino, offset, size) ==
    [write |-> write, ino |-> ino, block_index |-> offset \div block_size(fs),
     offset |-> offset, size |-> size]

\* lines 1323-1330 with the traversal v done
rfs_read_blocks(size, v) ==
    LET sz == block_size(v.fs)
        blocks == v.cl.blocks
    IN  IF v.res # "ok"
        THEN [fs |-> v.fs, res |-> v.res, data |-> <<>>, calls |-> v.cl.calls]
        ELSE IF Len(blocks) * sz > size
        THEN [fs |-> v.fs, res |-> "panic", data |-> <<>>, calls |-> v.cl.calls]
        ELSE [fs |-> v.fs, res |-> "ok", calls |-> v.cl.calls,
              data |-> [i \in 1..(size \div sz) |->
                          IF i <= Len(blocks)
                          THEN AsData(get_data_block(v.fs, blocks[i]))
                          ELSE 0]]

rfs_read(fs, ino, offset, size) ==
    IF offset % block_size(fs) # 0
    THEN [fs |-> fs, res |-> "panic", data |-> <<>>, calls |-> <<>>]
    ELSE rfs_read_blocks(size, visit_blocks_inode(fs, Request(fs, FALSE, ino, offset, size)))

RECURSIVE write_blocks(_, _, _, _)
write_blocks(fs, blocks, data, i) ==
    IF i > Len(blocks) THEN fs
    ELSE write_blocks(write_data_block(fs, blocks[i], MkData(data[i])), blocks, data, i + 1)

\* the size set to the end of the write, whatever it was
rfs_write_size_always(fs1, ino, offset, offset1, calls) ==
    [fs |-> set_inode(fs1, ino, [get_inode(fs1, ino) EXCEPT !.i_size = offset1, !.i_size_high = 0]),
     res |-> "ok", written |-> offset1 - offset, calls |-> calls]

\* lines 1386-1396 with the data blocks written
rfs_write_size(fs1, ino, offset, offset1, calls) ==
    LET inode == get_inode(fs1, ino)
        \* offset > i_size | (i_size_high << 32), for an offset below 1 << 32
        grows == inode.i_size_high = 0 /\ offset1 > inode.i_size
    IN  [fs |-> IF grows
                THEN set_inode(fs1, ino, [inode EXCEPT !.i_size = offset1, !.i_size_high = 0])
                ELSE fs1,
         res |-> "ok", written |-> offset1 - offset, calls |-> calls]

\* lines 1379-1396 with the traversal v done
rfs_write_blocks(ino, offset, data, v) ==
    LET sz == block_size(v.fs)
        size == Len(data) * sz
        blocks == v.cl.blocks
    IN  IF v.res # "ok"
        THEN [fs |-> v.fs, res |-> v.res, written |-> 0, calls |-> v.cl.calls]
        ELSE IF Len(blocks) * sz > size
        THEN [fs |-> v.fs, res |-> "panic", written |-> 0, calls |-> v.cl.calls]
        ELSE rfs_write_size(write_blocks(v.fs, blocks, data, 1), ino, offset,
                            offset + Len(blocks) * sz, v.cl.calls)

rfs_write(fs, ino, offset, data) ==
    IF offset % block_size(fs) # 0
    THEN [fs |-> fs, res |-> "panic", written |-> 0, calls |-> <<>>]
    ELSE rfs_write_blocks(ino, offset, data,
             visit_blocks_inode(fs, Request(fs, TRUE, ino, offset,
                                            Len(data) * block_size(fs))))

(***************************************************************************)
(* rename.  The source holds no rename; it is written from spec.md 4.6     *)
(* (directory-entry formatting, directory writeback, rename) over the      *)
(* operators of the source: get_dir_entries, update_name,                  *)
(* visit_blocks_inode with need_allocate, write_data_block.                *)
(***************************************************************************)
align4(n) == ((n + 3) \div 4) * 4

\* the entries cut into runs that fit a block each, by natural length
RECURSIVE pack_entries(_, _, _, _, _, _)
pack_entries(es, i, bs, used, run, acc) ==
    IF i > Len(es) THEN Append(acc, run)
    ELSE IF used + align4(8 + es[i].name_len) > bs
    THEN pack_entries(es, i, bs, 0, <<>>, Append(acc, run))
    ELSE pack_entries(es, i + 1, bs, used + align4(8 + es[i].name_len),
                      Append(run, es[i]), acc)

RECURSIVE natural_sum(_, _)
natural_sum(run, n) ==
    IF n = 0 THEN 0 ELSE align4(8 + run[n].name_len) + natural_sum(run, n - 1)

\* one block: every rec_len the natural length, the last one up to the end
format_block(run, bs) ==
    [o \in {natural_sum(run, j - 1) : j \in 1..Len(run)} |->
        LET j == CHOOSE k \in 1..Len(run) : natural_sum(run, k - 1) = o
        IN  [run[j] EXCEPT !.rec_len = IF j = Len(run) THEN bs - o
                                       ELSE align4(8 + run[j].name_len)]]

RECURSIVE write_dir_blocks(_, _, _, _)
write_dir_blocks(fs, blocks, runs, i) ==
    IF i > Len(runs) THEN fs
    ELSE write_dir_blocks(
             write_data_block(fs, blocks[i],
                 [k |-> "dir", v |-> format_block(runs[i], block_size(fs))]),
             blocks, runs, i + 1)

\* directory writeback with the traversal v of the directory done
apply_blocks(runs, v) ==
    IF v.res # "ok" THEN [fs |-> v.fs, res |-> v.res]
    ELSE IF Len(v.cl.blocks) # Len(runs) THEN [fs |-> v.fs, res |-> "err"]
    ELSE [fs |-> write_dir_blocks(v.fs, v.cl.blocks, runs, 1), res |-> "ok"]

\* format the entry stream and apply it to the blocks of directory dir
apply_entries(fs, dir, runs) ==
    apply_blocks(runs,
        visit_blocks_inode(fs, Request(fs, TRUE, dir, 0, Len(runs) * block_size(fs))))

\* the answer of rename: the inode number of the entry moved
rename_result(ino, a2) == [fs |-> a2.fs, res |-> a2.res, ino |-> IF a2.res = "ok" THEN ino ELSE 0]

\* rename with the entry e removed from the old parent (a1)
rename_append(newparent, newname, e, a1) ==
    IF a1.res # "ok" THEN [fs |-> a1.fs, res |-> a1.res, ino |-> 0]
    ELSE rename_result(e.inode,
             apply_entries(a1.fs, newparent,
                 pack_entries(Append(get_dir_entries(a1.fs, newparent).entries,
                                     update_name(e, newname)),
                              1, block_size(a1.fs), 0, <<>>, <<>>)))

\* the entry stream without its entry h
remove_entry(es, h) == [j \in 1..(Len(es) - 1) |-> IF j < h THEN es[j] ELSE es[j + 1]]

\* rename that leaves the entry in the old parent as well
rfs_rename_keep(fs, oldparent, oldname, newparent, newname) ==
    LET es == get_dir_entries(fs, oldparent).entries
        hits == {i \in 1..Len(es) : es[i].name = oldname}
    IN  IF hits = {} THEN [fs |-> fs, res |-> "err", ino |-> 0]
        ELSE rename_append(newparent, newname,
                 es[CHOOSE i \in hits : \A j \in hits : i <= j],
                 [fs |-> fs, res |-> "ok"])

rfs_rename(fs, oldparent, oldname, newparent, newname) ==
    LET es == get_dir_entries(fs, oldparent).entries
        hits == {i \in 1..Len(es) : es[i].name = oldname}
    IN  IF hits = {} THEN [fs |-> fs, res |-> "err", ino |-> 0]
        ELSE rename_append(newparent, newname,
                 es[CHOOSE i \in hits : \A j \in hits : i <= j],
                 apply_entries(fs, oldparent,
                     pack_entries(remove_entry(es, CHOOSE i \in hits : \A j \in hits : i <= j),
                                  1, block_size(fs), 0, <<>>, <<>>)))

(***************************************************************************)
(* rfs_init, rfs_destroy                                                   *)
(***************************************************************************)
\* FsLayoutArgs parsed from the built-in layout string
\* | Boot(1) | Super(1) | GroupDesc(1) | DATA Map(1) | Inode Map(1) |
\* | Inode Table(128) | DATA(*) |
DefaultLayout ==
    [block_size |-> BSIZE, boot |-> TRUE,
     super_block |-> 1, group_desc |-> 1 + 1, data_map |-> 1 + 1 + 1,
     inode_map |-> 1 + 1 + 1 + 1, inode_table |-> 1 + 1 + 1 + 1 + 1,
     inode_count |-> InodeTableBlocks * (BSIZE \div EXT2_INODE_SIZE),
     block_count |-> FILE_DISK_SIZE \div BSIZE]

Ext2SuperBlock_from(l) ==
    [s_magic |-> EXT2_SUPER_MAGIC,
     s_inodes_count |-> l.inode_count,
     s_blocks_count |-> l.block_count,
     s_first_data_block |-> IF l.block_size < 2 * 1024 THEN 1 ELSE 0,
     s_log_block_size |-> CASE l.block_size = 1024 -> 0
                            [] l.block_size = 2048 -> 1
                            [] l.block_size = 4096 -> 2,
     s_free_blocks_count |-> l.block_count - 1 - 1 - 1 - 1,
     s_free_inodes_count |->
        l.inode_count - (1 + 1 + 1 + 1 + 1 + l.inode_count \div EXT2_INODE_SIZE + 1),
     s_first_ino |-> EXT2_GOOD_OLD_FIRST_INO]

Ext2GroupDesc_from(l) ==
    [bg_inode_bitmap |-> l.inode_map, bg_block_bitmap |-> l.data_map,
     bg_inode_table |-> l.inode_table,
     bg_free_blocks_count |-> l.block_count % 65536,
     bg_free_inodes_count |-> l.inode_count % 65536]

Ext2GroupDesc_default ==
    [bg_inode_bitmap |-> 0, bg_block_bitmap |-> 0, bg_inode_table |-> 0,
     bg_free_blocks_count |-> 0, bg_free_inodes_count |-> 0]

apply_from(sb) ==
    [s_inodes_count |-> sb.s_inodes_count,
     s_free_blocks_count |-> sb.s_free_blocks_count,
     s_free_inodes_count |-> sb.s_free_inodes_count,
     s_first_data_block |-> sb.s_first_data_block,
     s_log_block_size |-> sb.s_log_block_size,
     s_first_ino |-> sb.s_first_ino]

magic_matched(c) == c.k = "super" /\ c.v.s_magic = EXT2_SUPER_MAGIC

AsGroupDesc(c) == IF c.k = "gd" THEN c.v ELSE Ext2GroupDesc_default

RECURSIVE clear_blocks(_, _, _)
clear_blocks(fs, i, n) ==
    IF i >= n THEN fs ELSE clear_blocks(write_data_block(fs, i, ZeroBlock), i + 1, n)

\* lines 1127-1130: the group descriptor goes behind the super block
format_group(fs3, group) ==
    write_data_block(fs3,
        fs3.super_block.s_first_data_block + fs3.filesystem_first_block,
        [k |-> "gd", v |-> group])

\* lines 1105-1130: the layout, the cleared head of the disk, the super block
\* and the group descriptor
format_layout(fs, layout) ==
    format_group(
        write_data_block(
            clear_blocks([fs EXCEPT !.filesystem_first_block = IF layout.boot THEN 1 ELSE 0,
                                    !.super_block = apply_from(Ext2SuperBlock_from(layout)),
                                    !.group_desc_table = <<Ext2GroupDesc_from(layout)>>],
                         0, 6),
            IF layout.boot THEN 1 ELSE 0,
            [k |-> "super", v |-> Ext2SuperBlock_from(layout)]),
        Ext2GroupDesc_from(layout))

\* lines 1132-1155: empty bitmaps, then the bit of the root inode
format_bitmaps(fs4) ==
    LET blank == [len |-> block_size(fs4), bits |-> {}]
        root_set == bitmap_set(blank, EXT2_ROOT_INO)
        g == get_group_desc(fs4)
    IN  [write_data_block(
             write_data_block(
                 write_data_block(fs4, g.bg_block_bitmap, ZeroBlock),
                 g.bg_inode_bitmap, ZeroBlock),
             g.bg_inode_bitmap, MkBitmap(root_set.bits))
            EXCEPT !.bitmap_data = blank, !.bitmap_inode = root_set]

\* what the format leaves: the result r of make_node and the super block
format_result(r, sb) == [fs |-> r.fs, res |-> r.res, sb |-> sb]

\* lines 1025-1158: the built-in format
format_disk(fs, junk) ==
    format_result(make_node(format_bitmaps(format_layout(fs, DefaultLayout)),
                            1, ".", DirMode, Directory, junk),
                  Ext2SuperBlock_from(DefaultLayout))

\* lines 1177-1195: the bitmaps of the group
load_bitmaps(fs2) ==
    [fs2 EXCEPT
        !.bitmap_data = [len |-> block_size(fs2),
                         bits |-> AsBitmap(get_data_block(fs2,
                                      get_group_desc(fs2).bg_block_bitmap))],
        !.bitmap_inode = [len |-> block_size(fs2),
                          bits |-> AsBitmap(get_data_block(fs2,
                                       get_group_desc(fs2).bg_inode_bitmap))]]

\* lines 1168-1175: the group descriptor
load_group(fs1) ==
    [fs1 EXCEPT !.group_desc_table =
        Append(@, AsGroupDesc(get_data_block(fs1,
                      fs1.super_block.s_first_data_block + fs1.filesystem_first_block)))]

\* lines 1165-1195: load the in-memory state from the disk
load_state(fs, sb) ==
    load_bitmaps(load_group([fs EXCEPT !.super_block = apply_from(sb)]))

\* lines 1159-1204 with the format f done
rfs_init_formatted(f) ==
    IF f.res # "ok" THEN [fs |-> f.fs, res |-> f.res, formatted |-> TRUE]
    ELSE [fs |-> load_state(f.fs, f.sb), res |-> "ok", formatted |-> TRUE]

rfs_init(fs, force_format, junk) ==
    LET b0 == get_data_block(fs, 0)
        b1 == get_data_block(fs, 1)
        head == IF magic_matched(b0) THEN b0 ELSE b1
        fs1 == IF ~magic_matched(b0) /\ magic_matched(b1)
               THEN [fs EXCEPT !.filesystem_first_block = 1] ELSE fs
    IN  IF FILE_DISK_SIZE < 32 * 1024
        THEN [fs |-> fs, res |-> "err", formatted |-> FALSE]
        ELSE IF ~(~magic_matched(head) \/ force_format)
        THEN [fs |-> load_state(fs1, head.v), res |-> "ok", formatted |-> FALSE]
        ELSE rfs_init_formatted(format_disk(fs1, junk))

\* rfs_destroy is driver.ddriver_close(); FileDiskDriver::ddriver_close
\* flushes the file and returns Ok
rfs_destroy(fs) == [fs |-> fs, res |-> "ok"]

(***************************************************************************)
(* Spec: the requests the kernel sends to a mounted RFS<FileDiskDriver>    *)
(***************************************************************************)
Names == {"a", "b"}
\* names a rename gives
RenameNames == {"a", "y"}
RECURSIVE Repeat(_, _)
Twice(s) == s \o s
Repeat(c, n) == IF n = 0 THEN "" ELSE IF n % 2 = 1 THEN c \o Repeat(c, n - 1) ELSE Twice(Repeat(c, n \div 2))
\* names of the greatest length update_name accepts
LongNames == {Repeat(c, EXT2_NAME_LEN - 1) : c \in {"p", "q", "r"}}
\* a name of EXT2_NAME_LEN bytes
TooLongNames == {Repeat("t", EXT2_NAME_LEN)}
\* write requests as <<first logical block, number of blocks, byte offset
\* within the first block>>
WriteRequests ==
    {<<2, 1, 0>>, <<11, 1, 0>>, <<12, 1, 0>>, <<267, 1, 0>>, <<268, 1, 0>>,
     <<11, 2, 0>>, <<267, 2, 0>>, <<523, 2, 0>>, <<65804, 1, 0>>, <<2, 1, 512>>}
\* read requests as <<first logical block, number of blocks>>
ReadRequests == {<<1, 2>>, <<11, 2>>, <<268, 1>>, <<523, 1>>, <<66316, 1>>}
FileMode == RegularFile * 4096 + 420    \* S_IFREG | 0o644

Cur ==
    [disk |-> disk, super_block |-> super_block,
     group_desc_table |-> group_desc_table,
     filesystem_first_block |-> filesystem_first_block,
     bitmap_inode |-> bitmap_inode, bitmap_data |-> bitmap_data,
     allocs |-> <<>>]

\* the object of a process that has just started, over the same disk
Fresh ==
    [disk |-> disk, super_block |-> Ext2SuperBlockMem_default,
     group_desc_table |-> <<>>, filesystem_first_block |-> 0,
     bitmap_inode |-> EmptyVec, bitmap_data |-> EmptyVec, allocs |-> <<>>]

Install(fs) ==
    /\ disk' = fs.disk
    /\ super_block' = fs.super_block
    /\ group_desc_table' = fs.group_desc_table
    /\ filesystem_first_block' = fs.filesystem_first_block
    /\ bitmap_inode' = fs.bitmap_inode
    /\ bitmap_data' = fs.bitmap_data

\* a panic ends the process: only the disk survives
Crash(fs) ==
    /\ Install([Fresh EXCEPT !.disk = fs.disk])
    /\ mounted' = FALSE
    /\ snap' = [taken |-> FALSE]

Aborted(res) == res \in {"panic", "ub"}

IndicesOf(allocs, is_data) ==
    {allocs[i].index : i \in {j \in 1..Len(allocs) : allocs[j].data = is_data}}

Track(allocs, base) ==
    [data |-> base.data \cup IndicesOf(allocs, TRUE),
     inode |-> base.inode \cup IndicesOf(allocs, FALSE)]

Dup(allocs, base) ==
    \E i \in 1..Len(allocs) :
        \/ allocs[i].index \in (IF allocs[i].data THEN base.data ELSE base.inode)
        \/ \E j \in 1..(i - 1) :
              allocs[j].data = allocs[i].data /\ allocs[j].index = allocs[i].index

\* the pointer the block-pointer tree of an inode holds for logical block k
BlockPointer(fs, inode, k) ==
    LET layer == block_size(fs) \div 4
        l1 == inode.i_block[12]
        l2 == inode.i_block[13]
        s == IF l2 = 0 THEN 0
             ELSE Get(AsIndex(get_data_block(fs, l2)), (k - threshold(fs, 1)) \div layer)
    IN  IF k < threshold(fs, 0) THEN inode.i_block[k]
        ELSE IF k < threshold(fs, 1)
        THEN IF l1 = 0 THEN 0
             ELSE Get(AsIndex(get_data_block(fs, l1)), k - threshold(fs, 0))
        ELSE IF s = 0 THEN 0
             ELSE Get(AsIndex(get_data_block(fs, s)), (k - threshold(fs, 1)) % layer)

Listing(fs, known) == [d \in known |-> get_dir_entries(fs, d).entries]

\* what the blocks hold that the pointers of the written positions lead to
Contents(fs, files) ==
    [ino \in DOMAIN files |->
        [k \in DOMAIN files[ino] |->
            AsData(get_data_block(fs, BlockPointer(fs, get_inode(fs, ino), k)))]]

Done(op, r, ino, start, n, data, ptrs, formatted) ==
    [op |-> op, res |-> r.res, ino |-> ino, start |-> start, n |-> n,
     data |-> data, ptrs |-> ptrs, allocs |-> r.fs.allocs,
     formatted |-> formatted, forced |-> FALSE, dup |-> FALSE, pre |-> super_block,
     shift |-> 0, calls |-> <<>>, parent |-> 0, name |-> "", before |-> <<>>,
     held |-> {}, written |-> 0, dest |-> [parent |-> 0, name |-> ""]]

Init == CacheIdle /\ FsIdle

\* the mount request answered with the result r of rfs_init
MountDone(r, force_format, base) ==
    /\ IF r.res = "ok"
       THEN Install(r.fs) /\ mounted' = TRUE /\ snap' = snap
       ELSE Crash(r.fs)
    /\ dirs' = IF r.formatted THEN (IF r.res = "ok" THEN {1} ELSE {}) ELSE dirs
    /\ image' = IF r.formatted THEN EmptyMap ELSE image
    /\ returned' = Track(r.fs.allocs, base)
    /\ flast' = [Done("mount", r, 1, 0, 0, <<>>, <<>>, r.formatted)
                   EXCEPT !.dup = Dup(r.fs.allocs, base),
                          !.forced = force_format]

Mount ==
    /\ ~mounted /\ fops < MaxFsOps
    /\ \E force_format \in BOOLEAN, junk \in BOOLEAN :
         \E r \in {rfs_init(Fresh, force_format, junk)} :
            MountDone(r, force_format,
                      IF r.formatted THEN [data |-> {}, inode |-> {}] ELSE returned)
    /\ fops' = fops + 1

\* mknod or mkdir answered with the result r of make_node
MakeNodeDone(op, node_type, parent, name, r) ==
    /\ IF Aborted(r.res)
       THEN Crash(r.fs)
       ELSE Install(r.fs) /\ UNCHANGED <<mounted, snap>>
    /\ dirs' = IF r.res = "ok" /\ node_type = Directory
               THEN dirs \cup {r.ino} ELSE dirs
    /\ image' = IF r.res = "ok" /\ node_type = RegularFile
                THEN Put(image, r.ino, EmptyMap) ELSE image
    /\ returned' = Track(r.fs.allocs, returned)
    /\ flast' = [Done(op, r, r.ino, 0, 0, <<>>, <<>>, FALSE)
                   EXCEPT !.dup = Dup(r.fs.allocs, returned),
                          !.parent = parent, !.name = name,
                          !.before = get_dir_entries(Cur, parent).entries]

MakeNode(op, mode, node_type, names) ==
    /\ mounted /\ fops < MaxFsOps
    /\ \E parent \in dirs, name \in names, junk \in BOOLEAN :
         /\ rfs_lookup(Cur, parent, name) = 0
         /\ \E r \in {make_node(Cur, parent, name, mode, node_type, junk)} :
               MakeNodeDone(op, node_type, parent, name, r)
    /\ fops' = fops + 1

Mknod == MakeNode("mknod", FileMode, RegularFile, Names)

Mkdir == MakeNode("mkdir", DirMode, Directory, Names)

\* what the file holds once the data went to the blocks start..
Overlay(old, start, data) ==
    [k \in DOMAIN old \cup (start..(start + Len(data) - 1)) |->
        IF k \in start..(start + Len(data) - 1) THEN data[k - start + 1] ELSE old[k]]

\* the write request answered with the result r of rfs_write
WriteDone(ino, start, shift, data, r) ==
    /\ IF Aborted(r.res)
       THEN Crash(r.fs)
       ELSE Install(r.fs) /\ UNCHANGED <<mounted, snap>>
    /\ image' = IF r.res = "ok"
                THEN [image EXCEPT ![ino] = Overlay(image[ino], start, data)]
                ELSE image
    /\ returned' = Track(r.fs.allocs, returned)
    /\ flast' = [Done("write", r, ino, start, Len(data), data, <<>>, FALSE)
                   EXCEPT !.dup = Dup(r.fs.allocs, returned),
                          !.shift = shift, !.calls = r.calls,
                          !.held = DOMAIN image[ino], !.written = r.written]

Write ==
    /\ mounted /\ fops < MaxFsOps
    /\ \E ino \in DOMAIN image, q \in WriteRequests :
         \E data \in {[j \in 1..q[2] |-> 10 * (fops + 1) + j]} :
            \E r \in {rfs_write(Cur, ino, q[1] * block_size(Cur) + q[3], data)} :
               WriteDone(ino, q[1], q[3], data, r)
    /\ fops' = fops + 1
    /\ UNCHANGED dirs

\* the read request answered with the result r of rfs_read
ReadDone(ino, start, n, r) ==
    /\ IF Aborted(r.res)
       THEN Crash(r.fs)
       ELSE Install(r.fs) /\ UNCHANGED <<mounted, snap>>
    /\ returned' = Track(r.fs.allocs, returned)
    /\ flast' = [Done("read", r, ino, start, n, r.data,
                      [j \in 1..n |->
                          BlockPointer(Cur, get_inode(Cur, ino), start + j - 1)],
                      FALSE)
                   EXCEPT !.dup = Dup(r.fs.allocs, returned), !.calls = r.calls]

Read ==
    /\ mounted /\ fops < MaxFsOps
    /\ \E ino \in DOMAIN image, q \in ReadRequests :
         \E r \in {rfs_read(Cur, ino, q[1] * block_size(Cur), q[2] * block_size(Cur))} :
            ReadDone(ino, q[1], q[2], r)
    /\ fops' = fops + 1
    /\ UNCHANGED <<image, dirs>>

\* the unmount answered with the result r of rfs_destroy
UnmountDone(r) ==
    /\ Install([Fresh EXCEPT !.disk = r.fs.disk])
    /\ snap' = [taken |-> TRUE, disk |-> disk,
                bitmap_inode |-> bitmap_inode, bitmap_data |-> bitmap_data,
                listing |-> Listing(Cur, dirs),
                contents |-> Contents(Cur, image)]
    /\ flast' = Done("destroy", r, 0, 0, 0, <<>>, <<>>, FALSE)

Unmount ==
    /\ mounted /\ fops < MaxFsOps
    /\ \E r \in {rfs_destroy(Cur)} : UnmountDone(r)
    /\ mounted' = FALSE
    /\ fops' = fops + 1
    /\ UNCHANGED <<image, dirs, returned>>

Next ==
    \/ (Mount /\ UNCHANGED cvars)
    \/ (Mknod /\ UNCHANGED cvars)
    \/ (Mkdir /\ UNCHANGED cvars)
    \/ (Write /\ UNCHANGED cvars)
    \/ (Read /\ UNCHANGED cvars)
    \/ (Unmount /\ UNCHANGED cvars)

Spec == Init /\ [][Next]_vars

(***************************************************************************)
(* rfs_setattr and Ext2INode::to_attr.  None stands for Option::None; the  *)
(* attributes sent are below 2^31, so v >> 32 is 0.  A 32-bit value is     *)
(* shown as <<bits 16..31, bits 0..15>>.                                   *)
(***************************************************************************)
None == -1

\* Option::map_or(old, f) for the halves written by rfs_setattr
rfs_setattr_node(node, mode, uid, gid, size) ==
    [node EXCEPT
        !.i_mode = IF mode = None THEN @ ELSE mode % 65536,
        !.i_uid = IF uid = None THEN @ ELSE uid % 256,
        !.i_uid_high = IF uid = None THEN @ ELSE uid \div 65536,
        !.i_gid = IF gid = None THEN @ ELSE gid % 256,
        !.i_gid_high = IF gid = None THEN @ ELSE gid \div 65536,
        !.i_size = IF size = None THEN @ ELSE size % 65536,
        !.i_size_high = IF size = None THEN @ ELSE 0]

rfs_setattr(fs, ino, mode, uid, gid, size) ==
    [fs |-> set_inode(fs, ino, rfs_setattr_node(get_inode(fs, ino), mode, uid, gid, size)),
     res |-> "ok", ino |-> ino]

\* the uid, gid and size of FileAttr: `a as u32 + b as u32 << 16` shifts the
\* sum, and gid takes i_uid_high
to_attr(node) ==
    [size |-> <<node.i_size \div 65536, node.i_size % 65536>>,
     uid |-> <<(node.i_uid + node.i_uid_high) % 65536, 0>>,
     gid |-> <<(node.i_gid + node.i_uid_high) % 65536, 0>>]

(***************************************************************************)
(* SpecAttr: nodes are made and their attributes set                       *)
(***************************************************************************)
AttrVals == {None, 255, 65536 + 300}

\* the setattr request answered with the result r of rfs_setattr
SetattrDone(ino, attrs, r) ==
    /\ Install(r.fs)
    /\ flast' = [Done("setattr", r, ino, 0, 0, attrs, <<>>, FALSE)
                   EXCEPT !.before = <<get_inode(Cur, ino)>>]
    /\ UNCHANGED <<mounted, snap, returned>>

Setattr ==
    /\ mounted /\ fops < MaxFsOps
    /\ \E ino \in dirs \cup DOMAIN image, uid \in AttrVals, gid \in AttrVals,
          size \in AttrVals :
          \E r \in {rfs_setattr(Cur, ino, None, uid, gid, size)} :
             SetattrDone(ino, <<None, uid, gid, size>>, r)
    /\ fops' = fops + 1
    /\ UNCHANGED <<image, dirs>>

NextAttr ==
    \/ (Mount /\ UNCHANGED cvars)
    \/ (Mknod /\ UNCHANGED cvars)
    \/ (Setattr /\ UNCHANGED cvars)

SpecAttr == Init /\ [][NextAttr]_vars

(***************************************************************************)
(* SpecName: directory entries built by Ext2DirEntry::new and renamed by   *)
(* update_name, for names of the lengths NameLens.  The entry is kept in   *)
(* flast.before.                                                           *)
(***************************************************************************)
NameLens == {1, 2, 3, 4, 5, 7, 8, EXT2_NAME_LEN - 2, EXT2_NAME_LEN - 1}

NameSet == {Repeat("n", l) : l \in NameLens}

EntryNew ==
    /\ fops < MaxFsOps
    /\ \E name \in NameSet :
          flast' = [NoOp EXCEPT !.op = "new", !.name = name,
                                !.before = <<Ext2DirEntry_new(name, EXT2_ROOT_INO,
                                                              EXT2_FT_DIR)>>]
    /\ fops' = fops + 1
    /\ UNCHANGED <<disk, mounted, super_block, group_desc_table,
                   filesystem_first_block, bitmap_inode, bitmap_data, image,
                   dirs, returned, snap>>

EntryUpdateName ==
    /\ fops < MaxFsOps /\ flast.op \in {"new", "update_name"}
    /\ \E name \in NameSet :
          flast' = [flast EXCEPT !.op = "update_name", !.name = name,
                                 !.before = <<update_name(flast.before[1], name)>>]
    /\ fops' = fops + 1
    /\ UNCHANGED <<disk, mounted, super_block, group_desc_table,
                   filesystem_first_block, bitmap_inode, bitmap_data, image,
                   dirs, returned, snap>>

NextName ==
    \/ (EntryNew /\ UNCHANGED cvars)
    \/ (EntryUpdateName /\ UNCHANGED cvars)

SpecName == Init /\ [][NextName]_vars

(***************************************************************************)
(* SpecFull: the device holds an image in the built-in layout whose        *)
(* bitmaps another writer has filled up to a few spare bits                *)
(***************************************************************************)
\* the bits left clear: none, a few low ones, or only one past the totals of
\* the super block (as after s_blocks_count blocks, s_inodes_count inodes)
SpareData == {{}, {114}, {114, 115}, {114, 115, 116}, {DefaultLayout.block_count - 1}}
SpareInode == {{}, {97}, {97, 98}, {DefaultLayout.inode_count}}

\* the bitmap block with every bit set except the spare ones
FillBitmap(fs, block, len, spare) ==
    write_data_block(fs, block,
        MkBitmap(AsBitmap(get_data_block(fs, block)) \cup ((0..(8 * len - 1)) \ spare)))

\* the image: what the built-in format f left, with both bitmaps filled
FilledImage(f, spare_data, spare_inode) ==
    FillBitmap(FillBitmap(f.fs, get_group_desc(f.fs).bg_block_bitmap,
                          block_size(f.fs), spare_data),
               get_group_desc(f.fs).bg_inode_bitmap, block_size(f.fs), spare_inode).disk

\* the mount of the image answered with the result r of rfs_init
MountFullDone(r) ==
    /\ Install(r.fs)
    /\ mounted' = TRUE
    /\ snap' = [taken |-> FALSE]
    /\ dirs' = {1}
    /\ image' = EmptyMap
    /\ returned' = [data |-> {}, inode |-> {}]
    /\ flast' = Done("mount", r, 1, 0, 0, <<>>, <<>>, FALSE)

MountFull ==
    /\ ~mounted /\ fops < MaxFsOps
    /\ \E spare_data \in SpareData, spare_inode \in SpareInode :
         \E f \in {rfs_init([Fresh EXCEPT !.disk = EmptyMap], TRUE, FALSE)} :
            \E r \in {rfs_init([Fresh EXCEPT !.disk = FilledImage(f, spare_data, spare_inode)],
                               FALSE, FALSE)} :
               MountFullDone(r)
    /\ fops' = fops + 1

NextFull ==
    \/ (MountFull /\ UNCHANGED cvars)
    \/ (Mknod /\ UNCHANGED cvars)
    \/ (Mkdir /\ UNCHANGED cvars)
    \/ (Write /\ UNCHANGED cvars)

SpecFull == Init /\ [][NextFull]_vars

(***************************************************************************)
(* SpecRename: nodes are made and renamed                                  *)
(***************************************************************************)
\* the rename request answered with the result r of rfs_rename
RenameDone(oldparent, oldname, newparent, newname, r) ==
    /\ IF Aborted(r.res)
       THEN Crash(r.fs)
       ELSE Install(r.fs) /\ UNCHANGED <<mounted, snap>>
    /\ returned' = Track(r.fs.allocs, returned)
    /\ flast' = [Done("rename", r, r.ino, 0, 0, <<>>, <<>>, FALSE)
                   EXCEPT !.dup = Dup(r.fs.allocs, returned),
                          !.parent = oldparent, !.name = oldname,
                          !.dest = [parent |-> newparent, name |-> newname]]

Rename ==
    /\ mounted /\ fops < MaxFsOps
    /\ \E oldparent \in dirs, newparent \in dirs, oldname \in Names, newname \in RenameNames :
         /\ rfs_lookup(Cur, newparent, newname) = 0
         /\ \E r \in {rfs_rename(Cur, oldparent, oldname, newparent, newname)} :
               RenameDone(oldparent, oldname, newparent, newname, r)
    /\ fops' = fops + 1
    /\ UNCHANGED <<image, dirs>>

NextRename ==
    \/ (Mount /\ UNCHANGED cvars)
    \/ (Mknod /\ UNCHANGED cvars)
    \/ (Mkdir /\ UNCHANGED cvars)
    \/ (Rename /\ UNCHANGED cvars)

SpecRename == Init /\ [][NextRename]_vars

(***************************************************************************)
(* SpecDir: a mounted filesystem whose directories receive nodes with long *)
(* names, so that directory blocks fill up                                 *)
(***************************************************************************)
MknodLong == MakeNode("mknod", FileMode, RegularFile, LongNames \cup TooLongNames)

MkdirLong == MakeNode("mkdir", DirMode, Directory, LongNames \cup TooLongNames)

NextDir ==
    \/ (Mount /\ UNCHANGED cvars)
    \/ (MknodLong /\ UNCHANGED cvars)
    \/ (MkdirLong /\ UNCHANGED cvars)

SpecDir == Init /\ [][NextDir]_vars

(***************************************************************************)
(* Claims about the filesystem                                             *)
(***************************************************************************)
ReadRange == flast.start..(flast.start + flast.n - 1)

\* C1 (as claimed): a read of positions that were all written by earlier
\* block-aligned writes returns, at every position, the pattern most
\* recently written there.
C1_ReadReturnsWritten ==
    (flast.op = "read" /\ flast.res = "ok"
        /\ ReadRange \subseteq DOMAIN image[flast.ino]) =>
        \A j \in 1..flast.n :
            flast.data[j] = image[flast.ino][flast.start + j - 1]

\* C2 (as claimed): in the buffer rfs_read returns, a logical block whose
\* pointer is 0 gives zeros at its own position and an allocated block gives
\* its content at its own position.
C2_HolesReadAsZeros ==
    (flast.op = "read" /\ flast.res = "ok") =>
        \A j \in 1..flast.n :
            flast.data[j] = IF flast.ptrs[j] = 0 THEN 0
                            ELSE AsData(get_data_block(Cur, flast.ptrs[j]))

\* C6: a mount without the force-format flag that follows rfs_destroy finds
\* the magic, does not format, and loads the bitmaps, directory listings and
\* file contents that were there immediately before the rfs_destroy.
C6_RemountSeesSameState ==
    (flast.op = "mount" /\ snap.taken /\ ~flast.forced) =>
        /\ flast.res = "ok" /\ ~flast.formatted
        /\ bitmap_inode = snap.bitmap_inode
        /\ bitmap_data = snap.bitmap_data
        /\ Listing(Cur, dirs) = snap.listing
        /\ Contents(Cur, image) = snap.contents
        /\ disk = snap.disk

C6_Witness ==
    /\ flast.op = "mount" /\ snap.taken /\ ~flast.forced
    /\ \E ino \in DOMAIN image : DOMAIN image[ino] # {}
    /\ Cardinality(bitmap_data.bits) > 3

\* C7: every index an allocator returns had its bit clear before the call,
\* has it set after the call, no other bit changed, and the index was not
\* returned before.
C7_AllocationSetsOneBit ==
    /\ ~flast.dup
    /\ \A i \in 1..Len(flast.allocs) :
          LET a == flast.allocs[i]
          IN  /\ a.index >= 1
              /\ (a.index - 1) \notin a.before
              /\ a.after = a.before \cup {a.index - 1}

C7_Witness ==
    /\ flast.op = "write" /\ flast.res = "ok"
    /\ Len(flast.allocs) >= 4

\* the blocks at fixed locations in the built-in layout: boot block,
\* superblock, group descriptor, both bitmaps and the inode table
FixedBlocks == 0..(DefaultLayout.inode_table + InodeTableBlocks - 1)

\* C8 (as claimed): allocate_block never returns a fixed-location block.
C8_NoFixedBlockAllocated ==
    \A i \in 1..Len(flast.allocs) :
        flast.allocs[i].data => flast.allocs[i].index \notin FixedBlocks

\* inode numbers whose bit is set in the inode bitmap
LiveInodes == {b + 1 : b \in bitmap_inode.bits}

TableEntries(fs, block) ==
    IF block = 0 THEN {}
    ELSE LET t == AsIndex(get_data_block(fs, block)) IN {t[x] : x \in DOMAIN t} \ {0}

\* the blocks an inode references: its block array, its index blocks and
\* what they point to
ReferencedBy(fs, inode) ==
    LET direct == {inode.i_block[i] : i \in 0..14} \ {0}
        second == TableEntries(fs, inode.i_block[13])
    IN  direct \cup TableEntries(fs, inode.i_block[12]) \cup second
            \cup UNION {TableEntries(fs, b) : b \in second}

Referenced == UNION {ReferencedBy(Cur, get_inode(Cur, ino)) : ino \in LiveInodes}

\* C9 (as claimed): a bit of the data bitmap is set exactly when its block is
\* referenced by an inode or by a reachable index block.
C9_BitmapMatchesReferences ==
    (mounted /\ flast.res = "ok") =>
        {b + 1 : b \in bitmap_data.bits} = Referenced

ZeroBits(bitmap) == 8 * bitmap.len - Cardinality(bitmap.bits)

\* C10 (as claimed): after mount the free counters equal the numbers of zero
\* bits of the bitmaps, and every allocation decrements its counter by one.
C10_FreeCountersMatchBitmaps ==
    mounted =>
        /\ super_block.s_free_inodes_count = ZeroBits(bitmap_inode)
        /\ super_block.s_free_blocks_count = ZeroBits(bitmap_data)
        /\ flast.op \in {"mknod", "mkdir", "write", "read"} =>
              /\ super_block.s_free_inodes_count =
                    flast.pre.s_free_inodes_count
                        - Cardinality(IndicesOf(flast.allocs, FALSE))
              /\ super_block.s_free_blocks_count =
                    flast.pre.s_free_blocks_count
                        - Cardinality(IndicesOf(flast.allocs, TRUE))

(***************************************************************************)
(* Claims about inode addressing                                           *)
(***************************************************************************)
\* inode numbers of the first blocks of the inode table and the last one
InodeNumbers ==
    (1..(2 * (BSIZE \div EXT2_INODE_SIZE) + 1)) \cup {DefaultLayout.inode_count}

InodeRecords ==
    {Ext2INode_default,
     [Ext2INode_default EXCEPT !.i_mode = FileMode, !.i_size = BSIZE]}

\* C11 (as claimed): set_inode(n, r) followed by get_inode(n) returns r, and
\* set_inode(n, r) leaves the record of every other inode number unchanged.
C11_SetInodeTouchesOnlyItsRecord ==
    mounted =>
        \A n \in InodeNumbers, r \in InodeRecords :
            /\ get_inode(set_inode(Cur, n, r), n) = r
            /\ \A m \in InodeNumbers \ {n} :
                  get_inode(set_inode(Cur, n, r), m) = get_inode(Cur, m)

\* C12 (as claimed): with P inodes per block, inode number n lives in block
\* inode_table_start + (n-1) div P at byte offset ((n-1) mod P) * sizeof(inode),
\* so distinct inode numbers have distinct places.
C12_InodePlace ==
    mounted =>
        /\ \A n \in InodeNumbers :
              fetch_inode_block_offset(Cur, n) =
                 [offset |-> ((n - 1) % (block_size(Cur) \div EXT2_INODE_SIZE))
                                * EXT2_INODE_SIZE,
                  block_number |-> get_group_desc(Cur).bg_inode_table
                       + (n - 1) \div (block_size(Cur) \div EXT2_INODE_SIZE)]
        /\ \A n \in InodeNumbers, m \in InodeNumbers :
              n # m => fetch_inode_block_offset(Cur, n) # fetch_inode_block_offset(Cur, m)

(***************************************************************************)
(* Claims about the block traversal                                        *)
(***************************************************************************)
\* C13: visit_blocks_inode calls f first at start_index; after an answer that
\* asks for a block it calls f again at the same index with the block just
\* allocated (non-zero); after an answer that continues it calls f at the
\* next index; after an answer that neither continues nor asks for a block it
\* does not call f again.
C13_AscendingOnceEach ==
    flast.op \in {"read", "write"} =>
        /\ Len(flast.calls) > 0 => flast.calls[1].index = flast.start
        /\ \A j \in 1..(Len(flast.calls) - 1) :
              IF flast.calls[j].need
              THEN /\ flast.calls[j + 1].index = flast.calls[j].index
                   /\ flast.calls[j + 1].block # 0
                   /\ flast.calls[j + 1].block \in IndicesOf(flast.allocs, TRUE)
              ELSE /\ flast.calls[j].cont
                   /\ flast.calls[j + 1].index = flast.calls[j].index + 1

\* a write over the end of the direct blocks: both positions ask for a block
C13_Witness ==
    /\ flast.op = "write" /\ flast.res = "ok" /\ flast.n = 2
    /\ flast.start = threshold(Cur, 0) - 1
    /\ Len(flast.calls) = 4
    /\ flast.calls[1].need /\ flast.calls[3].need /\ flast.calls[2].cont

\* the second-level index block on the path of logical block k, 0 when absent
SecondLevel(fs, inode, k) ==
    IF inode.i_block[13] = 0 THEN 0
    ELSE Get(AsIndex(get_data_block(fs, inode.i_block[13])),
             (k - threshold(fs, 1)) \div (block_size(fs) \div 4))

\* how many blocks of the pointer path of logical block k are absent
MissingOnPath(fs, inode, k) ==
    (IF BlockPointer(fs, inode, k) = 0 THEN 1 ELSE 0)
    + (IF k >= threshold(fs, 0) /\ k < threshold(fs, 1) /\ inode.i_block[12] = 0
       THEN 1 ELSE 0)
    + (IF k >= threshold(fs, 1) /\ inode.i_block[13] = 0 THEN 1 ELSE 0)
    + (IF k >= threshold(fs, 1) /\ SecondLevel(fs, inode, k) = 0 THEN 1 ELSE 0)

\* C14: after a successful one-block write at logical index k below T2 the
\* block holding the data is the one the pointer path of k leads to
\* (i_block[k]; entry k-T0 of i_block[12]; entry (k-T1) mod L of the index
\* block at entry (k-T1) div L of i_block[13]), and the write allocated
\* exactly the blocks that were absent on that path.
C14_OneBlockWritePath ==
    [][(fops' # fops /\ flast'.op = "write" /\ flast'.res = "ok" /\ flast'.n = 1)
        => /\ BlockPointer(Cur', get_inode(Cur', flast'.ino), flast'.start) # 0
           /\ AsData(get_data_block(Cur',
                 BlockPointer(Cur', get_inode(Cur', flast'.ino), flast'.start)))
                 = flast'.data[1]
           /\ Len(flast'.allocs)
                 = MissingOnPath(Cur, get_inode(Cur, flast'.ino), flast'.start)]_vars

\* the file held only block T1-1 and block T1 was written: the write took
\* the double-indirect block, one second-level index block and the data block
C14_Witness ==
    /\ flast.op = "write" /\ flast.res = "ok" /\ flast.n = 1
    /\ flast.start = threshold(Cur, 1) /\ flast.held = {threshold(Cur, 1) - 1}
    /\ Len(flast.allocs) = 3
    /\ get_inode(Cur, flast.ino).i_block[13] # 0

\* C15 (as claimed): a one-block write at a logical index k with
\* T2 <= k < T3 goes through the triple-indirect block: f is called for k
\* and the write completes, so that a read at k returns the written block.
C15_TripleIndirectWrite ==
    (flast.op = "write" /\ flast.shift = 0
        /\ flast.start >= threshold(Cur, 2) /\ flast.start < threshold(Cur, 3)) =>
        /\ flast.res = "ok"
        /\ \E j \in 1..Len(flast.calls) : flast.calls[j].index = flast.start

\* C16 (as claimed): a traversal that starts above T3 returns an error; it
\* does not call f and allocates no block.
C16_OutOfRangeIsError ==
    (flast.op \in {"read", "write"} /\ flast.start > threshold(Cur, 3)) =>
        /\ flast.res = "err"
        /\ flast.calls = <<>>
        /\ flast.allocs = <<>>

(***************************************************************************)
(* Claims about directories                                                *)
(***************************************************************************)
\* the directory blocks of a directory inode
DirBlocks(fs, ino) == {get_inode(fs, ino).i_block[i] : i \in 0..11} \ {0}

EntriesOf(fs, block) == get_block_dir_entries(fs, block, FALSE).entries

\* align4(8 + name_len), the length a record needs for its name
NaturalLen(e) == ((8 + e.name_len + 3) \div 4) * 4

\* C17 (as claimed): after format and after every successful make_node, in
\* every block of every directory the rec_len values sum to the block size,
\* every rec_len is a multiple of 4 and only the last record of the block is
\* longer than its name needs.
C17_DirBlockLayout ==
    (mounted /\ flast.res = "ok") =>
        \A d \in dirs : \A b \in DirBlocks(Cur, d) :
            /\ SumRecLen(EntriesOf(Cur, b), Len(EntriesOf(Cur, b))) = block_size(Cur)
            /\ \A j \in 1..Len(EntriesOf(Cur, b)) : EntriesOf(Cur, b)[j].rec_len % 4 = 0
            /\ \A j \in 1..(Len(EntriesOf(Cur, b)) - 1) :
                  EntriesOf(Cur, b)[j].rec_len = NaturalLen(EntriesOf(Cur, b)[j])

\* the directory that lists d under a name of its own; the root is its own
\* parent
ParentOf(d) ==
    IF d = 1 THEN 1
    ELSE CHOOSE p \in dirs :
            \E j \in 1..Len(get_dir_entries(Cur, p).entries) :
                /\ get_dir_entries(Cur, p).entries[j].inode = d
                /\ get_dir_entries(Cur, p).entries[j].name \notin {".", ".."}

FirstBlockEntries(d) == EntriesOf(Cur, get_inode(Cur, d).i_block[0])

\* C18 (as claimed): the first block of every directory begins with "."
\* naming the directory itself, followed by ".." naming its parent; the root
\* of a freshly formatted filesystem lists "." then ".." and nothing else.
C18_DotThenDotDot ==
    (mounted /\ flast.res = "ok") =>
        /\ \A d \in dirs :
              /\ Len(FirstBlockEntries(d)) >= 2
              /\ FirstBlockEntries(d)[1].name = "."
              /\ FirstBlockEntries(d)[1].inode \in
                    (IF d = 1 THEN {1, EXT2_ROOT_INO} ELSE {d})
              /\ FirstBlockEntries(d)[2].name = ".."
              /\ FirstBlockEntries(d)[2].inode = ParentOf(d)
        /\ (flast.op = "mount" /\ flast.formatted) =>
              [j \in 1..Len(get_dir_entries(Cur, 1).entries) |->
                  get_dir_entries(Cur, 1).entries[j].name] = <<".", "..">>

\* name and inode number of each entry, in order
Brief(entries) ==
    [j \in 1..Len(entries) |-> [name |-> entries[j].name, inode |-> entries[j].inode]]

C20_UnalignedWriteCompletes ==
    (flast.op = "write" /\ flast.shift # 0) =>
        /\ flast.res = "ok"
        /\ flast.calls # <<>>
        /\ flast.calls[1].index = flast.start

\* <<i_size_high, i_size>>: the size of the file is the first * 2^32 + the second
FileSize(fs, ino) == <<get_inode(fs, ino).i_size_high, get_inode(fs, ino).i_size>>

\* C21: a successful rfs_write(ino, off, data) returns len(data), and the
\* size of the inode afterwards is the greater of its previous size and
\* off + len(data) (all of them below 2^32 here, so i_size_high is 0); a
\* write that ends at or below the size leaves it as it was.
C21_WriteReturnsLenAndSize ==
    [][(fops' # fops /\ flast'.op = "write" /\ flast'.res = "ok")
        => /\ flast'.written = flast'.n * block_size(Cur)
           /\ FileSize(Cur, flast'.ino)[1] = 0
           /\ FileSize(Cur', flast'.ino)
                 = <<0, Max(FileSize(Cur, flast'.ino)[2],
                            (flast'.start + flast'.n) * block_size(Cur))>>]_vars

\* a write below the size of the file, which an earlier write had set
C21_Witness ==
    /\ flast.op = "write" /\ flast.res = "ok" /\ flast.n = 1
    /\ flast.written = block_size(Cur)
    /\ FileSize(Cur, flast.ino)[2] > (flast.start + flast.n) * block_size(Cur)

\* C22 (as claimed): make_node with a name of EXT2_NAME_LEN bytes or more
\* returns an error to the caller and leaves the disk (both bitmaps, the
\* inode table, the parent directory) and the bitmaps in memory as they were.
C22_NameTooLongIsError ==
    [][(fops' # fops /\ flast'.op \in {"mknod", "mkdir"}
            /\ Len(flast'.name) >= EXT2_NAME_LEN)
        => /\ flast'.res = "err"
           /\ disk' = disk
           /\ bitmap_inode' = bitmap_inode
           /\ bitmap_data' = bitmap_data]_vars

\* no free bit for the allocator of data blocks / of inodes
DataFull(fs) ==
    allocate_block([fs EXCEPT !.allocs = <<>>]).ok = FALSE
InodeFull(fs) ==
    allocate_inode([fs EXCEPT !.allocs = <<>>]).ok = FALSE
InodeBitmapOnDisk(fs, d) ==
    AsBitmap(get_data_block([fs EXCEPT !.disk = d], get_group_desc(fs).bg_inode_bitmap))

\* C23 (as claimed): a mknod or mkdir that finds the inode bitmap or the
\* data bitmap without a free bit returns an error to the caller, and when
\* it is the data bitmap that is exhausted the inode bitmap, in memory and on
\* disk, is as it was before the call.
C23_FullIsErrorWithoutInodeBit ==
    [][(fops' # fops /\ flast'.op \in {"mknod", "mkdir"}
            /\ (DataFull(Cur) \/ InodeFull(Cur)))
        => /\ flast'.res = "err"
           /\ (~InodeFull(Cur) =>
                  /\ bitmap_inode' = bitmap_inode
                  /\ InodeBitmapOnDisk(Cur, disk') = InodeBitmapOnDisk(Cur, disk))]_vars

\* C24 (as claimed): every inbound operation given inode number 1 reads and
\* modifies the same inode record and the same directory contents as when
\* given inode number 2: getattr (get_inode), setattr (set_inode), readdir
\* (get_dir_entries), lookup, mknod and mkdir (make_node), read and write
\* give the same answer and leave the same disk and bitmaps.
C24_RootAlias ==
    mounted =>
        /\ get_inode(Cur, 1) = get_inode(Cur, EXT2_ROOT_INO)
        /\ get_dir_entries(Cur, 1) = get_dir_entries(Cur, EXT2_ROOT_INO)
        /\ \A name \in Names \cup {".", ".."} :
              rfs_lookup(Cur, 1, name) = rfs_lookup(Cur, EXT2_ROOT_INO, name)
        /\ \A r \in InodeRecords :
              set_inode(Cur, 1, r) = set_inode(Cur, EXT2_ROOT_INO, r)
        /\ \A k \in 0..1 :
              /\ rfs_read(Cur, 1, k * block_size(Cur), block_size(Cur))
                    = rfs_read(Cur, EXT2_ROOT_INO, k * block_size(Cur), block_size(Cur))
              /\ rfs_write(Cur, 1, k * block_size(Cur), <<7>>)
                    = rfs_write(Cur, EXT2_ROOT_INO, k * block_size(Cur), <<7>>)
        /\ \A name \in Names, junk \in BOOLEAN :
              /\ make_node(Cur, 1, name, FileMode, RegularFile, junk)
                    = make_node(Cur, EXT2_ROOT_INO, name, FileMode, RegularFile, junk)
              /\ make_node(Cur, 1, name, DirMode, Directory, junk)
                    = make_node(Cur, EXT2_ROOT_INO, name, DirMode, Directory, junk)

C26_WriteSeekReadEcho ==
    /\ clast.cecho.stage = 3 =>
          (clast.cres.k = "ok" /\ clast.cres.n = iounit_size
              /\ clast.cres.buf = clast.cecho.buf)
    /\ clast.recho.stage = 3 =>
          (clast.rres.k = "ok" /\ clast.rres.n = iounit_size
              /\ clast.rres.buf = clast.recho.buf)

\* both devices went through the three requests at a cursor other than 0
C26_Witness ==
    /\ clast.cecho.stage = 3 /\ clast.recho.stage = 3
    /\ clast.cecho.pos > 0 /\ clast.recho.pos > 0


\* a slot of the cache holds unit t with the bytes last written to it
Resident(c, t) ==
    \E i \in 1..Len(c.cache) : c.cache[i].tag = t /\ c.cache[i].data = written[t]

\* C27 (as claimed): in every state reached without a failure of the inner
\* device, ddriver_open on a cache holding dirty slots included, each unit last
\* written through the cache is resident in a slot with those bytes or stored
\* with those bytes in the inner device.
C27_NoDirtyBlockDiscarded ==
    (~halted /\ ~cdrv.inner.fault) =>
        \A t \in DOMAIN written :
            Resident(cdrv, t) \/ InnerUnit(cdrv.inner, t) = written[t]

\* the dirty slots of a cache
DirtySlots(c) == {c.cache[i] : i \in {j \in 1..Len(c.cache) : c.cache[j].dirty}}

\* C28 (as claimed): when a flush, a read or a write of the cached device
\* returns the error of an inner seek or write issued to write a dirty slot
\* back, every slot that was dirty before the request is still held dirty by
\* the cache, with the same bytes.
C28_FailedWriteBackKeepsBlock ==
    [][(clast'.op \in {"flush", "read", "write"} /\ clast'.cres.k = "err"
            /\ cdrv.inner.fault)
        => DirtySlots(cdrv) \subseteq DirtySlots(cdrv')]_vars

\* the flush half of C28: a ddriver_flush whose inner seek or write fails
\* does not return Ok and keeps every dirty slot
FlushKeepsBlock ==
    [][(clast'.op = "flush" /\ cdrv.inner.fault /\ DirtySlots(cdrv) # {})
        => (clast'.cres.k # "ok" /\ DirtySlots(cdrv) \subseteq DirtySlots(cdrv'))]_vars

(***************************************************************************)
(* Claims about the traversal: reads and index blocks                      *)
(***************************************************************************)
\* the bitmap blocks, inode table blocks and index blocks a disk holds
MetaBlocks(d) ==
    [b \in {x \in DOMAIN d : d[x].k \in {"bitmap", "inodes", "index"}} |-> d[b]]

\* C29 (as claimed): rfs_read, whatever range it is given, leaves both
\* bitmaps (on disk and in memory), every inode record and every index block
\* unchanged.
C29_ReadsLeaveMetadata ==
    [][flast'.op = "read" =>
          /\ MetaBlocks(disk') = MetaBlocks(disk)
          /\ ~Aborted(flast'.res) =>
                (bitmap_data' = bitmap_data /\ bitmap_inode' = bitmap_inode)]_vars

\* the part of C29 for ranges below the first indirect index
ReadsBelowT0LeaveMetadata ==
    [][(flast'.op = "read" /\ flast'.start + flast'.n <= 12) =>
          /\ MetaBlocks(disk') = MetaBlocks(disk)
          /\ bitmap_data' = bitmap_data /\ bitmap_inode' = bitmap_inode]_vars

\* the blocks the allocator handed out during the last request
AllocatedBlocks(allocs) == IndicesOf(allocs, TRUE)

\* C30 (as claimed): when the traversal of a write returns, every block
\* allocated during it is referenced from the on-disk inode of the file or
\* from an on-disk index block of the file.
C30_AllocatedBlocksReferenced ==
    (flast.op = "write" /\ flast.res = "ok") =>
        AllocatedBlocks(flast.allocs) \subseteq
            ReferencedBy(Cur, get_inode(Cur, flast.ino))

\* the part of C30 for writes that stay under one second-level index block
OneTableWritesReferenced ==
    (flast.op = "write" /\ flast.res = "ok"
        /\ (flast.start + flast.n <= 268 + 256 \/ flast.start >= 268 + 256)) =>
        AllocatedBlocks(flast.allocs) \subseteq
            ReferencedBy(Cur, get_inode(Cur, flast.ino))

(***************************************************************************)
(* Claims about the cache policy and the device contract                   *)
(***************************************************************************)
ResidentTags(c) == {c.cache[i].tag : i \in 1..Len(c.cache)}

\* C31: the cache never holds more than CacheSize slots, one per tag; the slot
\* read or written last is the most recently used one; a tag that was used
\* and is no longer resident was used before every resident tag, and nothing
\* is evicted while there is room.
C31_LruPolicy ==
    ~halted =>
        /\ Len(cdrv.cache) <= CacheSize
        /\ Cardinality(ResidentTags(cdrv)) = Len(cdrv.cache)
        /\ ResidentTags(cdrv) \subseteq DOMAIN lastuse
        /\ \A i, j \in 1..Len(cdrv.cache) :
              i < j => lastuse[cdrv.cache[i].tag] > lastuse[cdrv.cache[j].tag]
        /\ \A n \in DOMAIN lastuse \ ResidentTags(cdrv), r \in ResidentTags(cdrv) :
              lastuse[n] < lastuse[r]
        /\ Len(cdrv.cache) < CacheSize => DOMAIN lastuse \subseteq ResidentTags(cdrv)

\* a full cache after an eviction, reached by a request that hit a slot
C31_Witness ==
    /\ ~halted /\ Len(cdrv.cache) = CacheSize
    /\ DOMAIN lastuse \ ResidentTags(cdrv) # {}
    /\ clast.op \in {"read", "write"} /\ clast.cres.k = "ok"

\* C32 (as claimed): a cached read or write issued at a logical offset that is
\* not a multiple of the IO unit fails and leaves every cache slot and the
\* inner device unchanged (the sizes of the requests are whole units).
C32_MisalignedFails ==
    [][(clast'.op \in {"read", "write"} /\ cdrv.offset % iounit_size # 0)
        => (clast'.cres.k # "ok" /\ cdrv'.cache = cdrv.cache
                /\ cdrv'.inner = cdrv.inner)]_vars

\* the second half of C32: an aligned request of two units leaves the cached
\* device as the two single-unit requests do
TwoUnitsAsTwoRequests ==
    \A v \in Vals :
        LET buf == WBuf(v, 2 * iounit_size)
            w1 == cache_ddriver_write(cdrv, SubSeq(buf, 1, iounit_size), iounit_size)
            w2 == cache_ddriver_write(w1.c, SubSeq(buf, iounit_size + 1, 2 * iounit_size),
                                      iounit_size)
            r1 == cache_ddriver_read(cdrv, iounit_size)
            r2 == cache_ddriver_read(r1.c, iounit_size)
        IN  /\ (w1.res.k = "ok" /\ w2.res.k = "ok") =>
                  cache_ddriver_write(cdrv, buf, 2 * iounit_size).c = w2.c
            /\ (r1.res.k = "ok" /\ r2.res.k = "ok") =>
                  /\ cache_ddriver_read(cdrv, 2 * iounit_size).c = r2.c
                  /\ cache_ddriver_read(cdrv, 2 * iounit_size).res.buf
                        = r1.res.buf \o r2.res.buf

(***************************************************************************)
(* Claims about directory entries                                          *)
(***************************************************************************)
\* C33 (as claimed): an entry built by Ext2DirEntry::new or changed by
\* update_name with a name of n bytes, 1 <= n < 255, has name_len = n and
\* rec_len = align4(8 + n), the smallest multiple of 4 that is >= 8 + n.
C33_RecLenIsAligned ==
    flast.op \in {"new", "update_name"} =>
        /\ flast.before[1].name_len = Len(flast.name)
        /\ flast.before[1].rec_len = align4(8 + Len(flast.name))

\* what holds instead: name_len is n, and rec_len is the multiple of 4 right
\* above 8 + m, where m is the longest name the entry ever had
RecLenAboveLongest ==
    flast.op \in {"new", "update_name"} =>
        /\ flast.before[1].name_len = Len(flast.name)
        /\ flast.before[1].bytes >= Len(flast.name)
        /\ flast.before[1].rec_len = ((8 + flast.before[1].bytes) \div 4 + 1) * 4

(***************************************************************************)
(* Claims about block ownership and the allocator's ranges                 *)
(***************************************************************************)
\* the non-zero pointers of an index block, each with its slot
TableRefs(fs, ino, level, block) ==
    IF block = 0 THEN {}
    ELSE LET t == AsIndex(get_data_block(fs, block))
         IN  {<<<<ino, level, block, x>>, t[x]>> : x \in {y \in DOMAIN t : t[y] # 0}}

\* the places that hold a block number on behalf of inode ino, as
\* <<place, block>>: the block array, the single-indirect block, the
\* double-indirect block and its second-level blocks
RefsOf(fs, ino) ==
    LET inode == get_inode(fs, ino)
    IN  {<<<<ino, "i_block", 0, i>>, inode.i_block[i]>> :
            i \in {j \in 0..14 : inode.i_block[j] # 0}}
        \cup TableRefs(fs, ino, "L1", inode.i_block[12])
        \cup TableRefs(fs, ino, "L2", inode.i_block[13])
        \cup UNION {TableRefs(fs, ino, "L2.1", b) :
                        b \in TableEntries(fs, inode.i_block[13])}

AllRefs == UNION {RefsOf(Cur, ino) : ino \in dirs \cup DOMAIN image}

\* C34 (as claimed): after format and after any sequence of mknod, mkdir and
\* write, no block number is held by two different places.
C34_NoBlockReferencedTwice ==
    mounted => \A p, q \in AllRefs : p[2] = q[2] => p = q

\* two files hold blocks through index blocks, one of them through a
\* second-level index block
C34_Witness ==
    /\ mounted
    /\ \E p, q \in AllRefs :
          /\ p[1][1] # q[1][1]
          /\ p[1][2] = "L2.1" /\ q[1][2] \in {"L1", "L2.1"}

\* C35 (as claimed): every inode number the allocator returns is at most
\* s_inodes_count and every block number it returns is below s_blocks_count.
C35_AllocationsWithinTotals ==
    mounted =>
        \A i \in 1..Len(flast.allocs) :
            IF flast.allocs[i].data
            THEN flast.allocs[i].index < DefaultLayout.block_count
            ELSE flast.allocs[i].index <= super_block.s_inodes_count

(***************************************************************************)
(* Claims about the bitmaps on disk                                        *)
(***************************************************************************)
\* the bits of a bitmap block read back through the driver
BitmapOnDisk(fs, block) == AsBitmap(get_data_block(fs, block))

\* C36: after mount and after every completed mknod, mkdir and write, the
\* inode-bitmap block and the data-bitmap block on disk hold exactly the bits
\* of the in-memory inode bitmap and data bitmap.
C36_BitmapsOnDiskMatchMemory ==
    (mounted /\ flast.op \in {"mount", "mknod", "mkdir", "write"}
        /\ flast.res = "ok") =>
        /\ BitmapOnDisk(Cur, get_group_desc(Cur).bg_inode_bitmap) = bitmap_inode.bits
        /\ BitmapOnDisk(Cur, get_group_desc(Cur).bg_block_bitmap) = bitmap_data.bits

\* a write through both indirect levels has allocated blocks after a node
\* was made
C36_Witness ==
    /\ mounted /\ flast.op = "write" /\ flast.res = "ok"
    /\ Len(flast.allocs) >= 4
    /\ Cardinality(bitmap_inode.bits) >= 3

(***************************************************************************)
(* Claims about attributes                                                 *)
(***************************************************************************)
\* a value below 2^31 as <<bits 16..31, bits 0..15>>
Halves(v) == <<v \div 65536, v % 65536>>

\* C37 (as claimed): after rfs_setattr with size = v (uid = v, gid = v) the
\* inode read back holds v in its low and high halves, FileAttr reports v,
\* and every attribute passed as None keeps its previous value.
C37_SetattrRoundTrip ==
    (flast.op = "setattr" /\ flast.res = "ok") =>
        LET node == get_inode(Cur, flast.ino)
            old == flast.before[1]
            uid == flast.data[2]
            gid == flast.data[3]
            size == flast.data[4]
        IN  /\ node.i_mode = old.i_mode
            /\ IF uid = None
               THEN node.i_uid = old.i_uid /\ node.i_uid_high = old.i_uid_high
               ELSE <<node.i_uid_high, node.i_uid>> = Halves(uid)
                        /\ to_attr(node).uid = Halves(uid)
            /\ IF gid = None
               THEN node.i_gid = old.i_gid /\ node.i_gid_high = old.i_gid_high
               ELSE <<node.i_gid_high, node.i_gid>> = Halves(gid)
                        /\ to_attr(node).gid = Halves(gid)
            /\ IF size = None
               THEN node.i_size = old.i_size /\ node.i_size_high = old.i_size_high
               ELSE node.i_size_high = 0 /\ node.i_size = size
                        /\ to_attr(node).size = Halves(size)

\* the part of C37 about attributes passed as None
NoneKeepsAttribute ==
    (flast.op = "setattr" /\ flast.res = "ok") =>
        LET node == get_inode(Cur, flast.ino)
            old == flast.before[1]
        IN  /\ node.i_mode = old.i_mode /\ node.i_block = old.i_block
            /\ flast.data[2] = None =>
                  (node.i_uid = old.i_uid /\ node.i_uid_high = old.i_uid_high)
            /\ flast.data[3] = None =>
                  (node.i_gid = old.i_gid /\ node.i_gid_high = old.i_gid_high)
            /\ flast.data[4] = None =>
                  (node.i_size = old.i_size /\ node.i_size_high = old.i_size_high)

(***************************************************************************)
(* Claims about the file-backed device                                     *)
(***************************************************************************)
\* C38 (as claimed): on the file-backed device a read or write that would
\* end beyond the layout size (every request is at least one unit long)
\* returns an error and leaves the backing store unchanged in contents and
\* length.
C38_OutOfRangeFails ==
    [][(clast'.op \in {"read", "write"} /\ rdev.pos + iounit_size > layout_size)
        => (clast'.rres.k = "err" /\ rdev'.data = rdev.data)]_vars

\* what the device does hold to: a read never changes the backing store, and
\* a request inside the layout leaves its length at the layout size
ReadKeepsBackingStore ==
    [][/\ clast'.op = "read" => rdev'.data = rdev.data
       /\ (clast'.op = "write" /\ clast'.rres.k = "ok"
             /\ Len(rdev.data) = layout_size
             /\ rdev'.pos <= layout_size) => Len(rdev'.data) = layout_size]_vars

\* C39 (as claimed): opening the file device on an existing backing file
\* shorter than the layout size succeeds, extends the file with zero bytes to
\* exactly the layout size and leaves its existing bytes unchanged; a backing
\* file that did not exist consists of layout-size zero bytes.
C39_OpenExtendsWithZeros ==
    (clast.op = "open_path") =>
        IF clast.file = <<>>
        THEN clast.rres.k = "ok" /\ rdev.data = Zeros(layout_size)
        ELSE Len(clast.file[1]) < layout_size =>
                /\ clast.rres.k = "ok"
                /\ Len(rdev.data) = layout_size
                /\ \A i \in 1..layout_size :
                      rdev.data[i] = IF i <= Len(clast.file[1]) THEN clast.file[1][i] ELSE 0

\* the half of C39 about a backing file that did not exist, and files that
\* are long enough: the open succeeds at position 0 with layout-size zero
\* bytes, or with the file as it was
NewFileIsBlank ==
    (clast.op = "open_path" /\ (clast.file = <<>> \/ Len(clast.file[1]) >= layout_size)) =>
        /\ clast.rres.k = "ok" /\ rdev.pos = 0
        /\ rdev.data = IF clast.file = <<>> THEN Zeros(layout_size) ELSE clast.file[1]

=============================================================================
